---- MODULE Spec2Model ----
(***************************************************************************)
(* A model of the keyword engine of the resume analyser:                   *)
(*   services/resume_processor.py  (ResumeProcessor)                       *)
(*   config/settings.py            (ANALYSIS_CONFIG)                       *)
(*                                                                         *)
(* A Python str is a sequence of one-character strings; a Python list is a *)
(* sequence; a Python set is a set.  Every operation of ResumeProcessor is *)
(* an operator computed the way the code computes it, and an action that   *)
(* applies it to inputs drawn by the initial predicate.                    *)
(***************************************************************************)
EXTENDS Integers, Sequences, FiniteSets, TLC

VARIABLES
    pc,                 \* position of the calling code
    text,               \* clean_text: the argument
    cleaned,            \* clean_text(text)
    recleaned,          \* clean_text(clean_text(text))
    word1, word2,       \* _are_synonyms: the arguments
    synonyms,           \* _are_synonyms(word1, word2) and (word2, word1)
    resume_keywords,    \* match_keywords: the arguments
    job_keywords,
    result,             \* the dict match_keywords returns
    matched_keywords,   \* calculate_match_score: the arguments
    total_job_keywords,
    match_score,        \* calculate_match_score's return value
    scoring_thresholds, \* ResumeProcessor.scoring_thresholds
    analysis_results,   \* suggest_improvements: the argument
    suggestions,        \* suggest_improvements' return value
    min_length,         \* extract_keywords: the second argument (the first is text)
    all_keywords,       \* extract_keywords' return value
    resume_text,        \* analyze_resume_sections: the argument
    lines,              \* resume_text.split('\n')
    line_index,         \* how many lines the for loop has taken
    current_section,
    section_content,
    sections,           \* analyze_resume_sections' return value
    config,             \* ResumeProcessor: the ANALYSIS_CONFIG it is built from
    self,               \* the ResumeProcessor object, its attributes
    call,               \* the last method call: arguments before and after, result
    uploaded_file,      \* FileHandler.extract_text_from_file: the argument
    extracted_text,     \* its return value
    st_messages,        \* what it passed to st.error and st.warning
    api_key,            \* GeminiService: os.getenv('GOOGLE_API_KEY')
    tried,              \* __init__: the model names tried, with what happened
    model,              \* self.model
    max_retries,        \* generate_response: the argument
    attempt,            \* the loop variable
    events,             \* the generate_content and time.sleep calls, in order
    now,                \* time.time()
    last_request_time,  \* self.last_request_time
    generated,          \* generate_response's return value
    chain_output,       \* LangChainService: what chain.invoke does
    analysis            \* analyze_job_description / analyze_resume: return value

normVars  == <<text, cleaned, recleaned>>
synVars   == <<word1, word2, synonyms>>
matchVars == <<resume_keywords, job_keywords, result>>
scoreVars == <<matched_keywords, total_job_keywords, match_score>>
tierVars  == <<scoring_thresholds, analysis_results, suggestions>>
extrVars  == <<min_length, all_keywords>>
segVars   == <<resume_text, lines, line_index, current_section,
               section_content, sections>>
coreVars  == <<normVars, synVars, matchVars, scoreVars, tierVars, extrVars,
               segVars>>
procVars  == <<config, self, call>>
fileVars  == <<uploaded_file, extracted_text, st_messages>>
initVars  == <<api_key, tried, model>>
gemVars   == <<max_retries, attempt, events, now, last_request_time,
               generated>>
lcVars    == <<chain_output, analysis>>
vars == <<pc, normVars, synVars, matchVars, scoreVars, tierVars, extrVars,
          segVars, procVars, fileVars, initVars, gemVars, lcVars>>

\* A value no operation returns: "not computed yet".
None == "None"

\* Python's None where a str is expected.  No str equals it: the characters
\* of a str are one-character strings.
NoneValue == <<"None">>

-----------------------------------------------------------------------------
(* Characters and the str methods the code uses.                           *)

Lowercase == <<"a","b","c","d","e","f","g","h","i","j","k","l","m",
               "n","o","p","q","r","s","t","u","v","w","x","y","z">>
Uppercase == <<"A","B","C","D","E","F","G","H","I","J","K","L","M",
               "N","O","P","Q","R","S","T","U","V","W","X","Y","Z">>
Digits == {"0","1","2","3","4","5","6","7","8","9"}

Range(s) == {s[i] : i \in DOMAIN s}

\* \s of the re module, and what str.strip() strips
IsWhitespace(c) == c \in {" ", "\t", "\n", "\r", "\f"}

\* \w of the re module
IsWordChar(c) == c \in Range(Lowercase) \cup Range(Uppercase) \cup Digits \cup {"_"}

\* the punctuation the character class of clean_text lists: \- \. \, \; \: \! \?
IsKeptPunctuation(c) == c \in {"-", ".", ",", ";", ":", "!", "?"}

\* str.lower(), one character
LowerChar(c) ==
    IF \E i \in DOMAIN Uppercase : Uppercase[i] = c
    THEN Lowercase[CHOOSE i \in DOMAIN Uppercase : Uppercase[i] = c]
    ELSE c

\* str.lower()
lower(s) == [i \in DOMAIN s |-> LowerChar(s[i])]

RECURSIVE lstrip(_)
lstrip(s) ==
    IF s # <<>> /\ IsWhitespace(Head(s)) THEN lstrip(Tail(s)) ELSE s

RECURSIVE rstrip(_)
rstrip(s) ==
    IF s # <<>> /\ IsWhitespace(s[Len(s)]) THEN rstrip(SubSeq(s, 1, Len(s) - 1)) ELSE s

\* str.strip()
strip(s) == rstrip(lstrip(s))

\* the leading run of non-whitespace characters
RECURSIVE first_word(_)
first_word(s) ==
    IF s = <<>> \/ IsWhitespace(Head(s)) THEN <<>>
    ELSE <<Head(s)>> \o first_word(Tail(s))

\* str.split(): the maximal runs of non-whitespace characters
RECURSIVE split(_)
split(s) ==
    LET rest == lstrip(s)
        word == first_word(rest)
    IN IF rest = <<>> THEN <<>>
       ELSE <<word>> \o split(SubSeq(rest, Len(word) + 1, Len(rest)))

\* a in b, for two str
IsSubstring(a, b) ==
    \E i \in 0..(Len(b) - Len(a)) : SubSeq(b, i + 1, i + Len(a)) = a

-----------------------------------------------------------------------------
(* ResumeProcessor.clean_text                                              *)

\* re.sub(r'\s+', ' ', s): every maximal run of whitespace becomes one space
RECURSIVE sub_whitespace_runs(_)
sub_whitespace_runs(s) ==
    IF s = <<>> THEN <<>>
    ELSE IF IsWhitespace(Head(s))
         THEN <<" ">> \o sub_whitespace_runs(lstrip(s))
         ELSE <<Head(s)>> \o sub_whitespace_runs(Tail(s))

\* re.sub(r'[^\w\s\-\.\,\;\:\!\?]', ' ', s): every other character becomes a space
sub_special_characters(s) ==
    [i \in DOMAIN s |->
        IF IsWordChar(s[i]) \/ IsWhitespace(s[i]) \/ IsKeptPunctuation(s[i])
        THEN s[i] ELSE " "]

\* what a call that raises returns in place of a value
Raised(exception) == <<<<exception>>>>

\* clean_text with the test  if text == ""  for  if not text
clean_text_empty_only(t) ==
    IF t = <<>> THEN <<>>
    ELSE IF t = NoneValue THEN Raised("AttributeError")
    ELSE sub_special_characters(sub_whitespace_runs(strip(t)))

clean_text(t) ==
    IF t = NoneValue \/ t = <<>> THEN <<>>
    ELSE sub_special_characters(sub_whitespace_runs(strip(t)))

-----------------------------------------------------------------------------
(* ResumeProcessor.skill_synonyms and ResumeProcessor._are_synonyms        *)

\* the dict of __init__, in its order: key |-> list of surface forms
skill_synonyms == <<
    [key |-> <<"j","a","v","a","s","c","r","i","p","t">>,
     synonyms |-> <<<<"j","s">>,
                    <<"j","a","v","a","s","c","r","i","p","t">>,
                    <<"e","c","m","a","s","c","r","i","p","t">> >>],
    [key |-> <<"p","y","t","h","o","n">>,
     synonyms |-> <<<<"p","y","t","h","o","n">>,
                    <<"p","y">> >>],
    [key |-> <<"a","r","t","i","f","i","c","i","a","l"," ","i","n","t","e","l","l","i","g","e","n","c","e">>,
     synonyms |-> <<<<"a","i">>,
                    <<"a","r","t","i","f","i","c","i","a","l"," ","i","n","t","e","l","l","i","g","e","n","c","e">>,
                    <<"m","a","c","h","i","n","e"," ","l","e","a","r","n","i","n","g">>,
                    <<"m","l">> >>],
    [key |-> <<"m","a","c","h","i","n","e"," ","l","e","a","r","n","i","n","g">>,
     synonyms |-> <<<<"m","l">>,
                    <<"m","a","c","h","i","n","e"," ","l","e","a","r","n","i","n","g">>,
                    <<"a","r","t","i","f","i","c","i","a","l"," ","i","n","t","e","l","l","i","g","e","n","c","e">>,
                    <<"a","i">> >>],
    [key |-> <<"d","a","t","a","b","a","s","e">>,
     synonyms |-> <<<<"d","b">>,
                    <<"d","a","t","a","b","a","s","e">>,
                    <<"d","a","t","a","b","a","s","e","s">> >>],
    [key |-> <<"l","e","a","d","e","r","s","h","i","p">>,
     synonyms |-> <<<<"l","e","a","d","e","r","s","h","i","p">>,
                    <<"l","e","a","d">>,
                    <<"l","e","a","d","i","n","g">>,
                    <<"m","a","n","a","g","e">>,
                    <<"m","a","n","a","g","e","m","e","n","t">> >>],
    [key |-> <<"c","o","m","m","u","n","i","c","a","t","i","o","n">>,
     synonyms |-> <<<<"c","o","m","m","u","n","i","c","a","t","i","o","n">>,
                    <<"c","o","m","m","u","n","i","c","a","t","e">>,
                    <<"c","o","m","m","u","n","i","c","a","t","i","n","g">> >>],
    [key |-> <<"p","r","o","j","e","c","t"," ","m","a","n","a","g","e","m","e","n","t">>,
     synonyms |-> <<<<"p","r","o","j","e","c","t"," ","m","a","n","a","g","e","m","e","n","t">>,
                    <<"p","m">>,
                    <<"p","r","o","j","e","c","t"," ","m","a","n","a","g","e","r">> >>],
    [key |-> <<"s","o","f","t","w","a","r","e"," ","d","e","v","e","l","o","p","m","e","n","t">>,
     synonyms |-> <<<<"s","o","f","t","w","a","r","e"," ","d","e","v","e","l","o","p","m","e","n","t">>,
                    <<"d","e","v","e","l","o","p","m","e","n","t">>,
                    <<"p","r","o","g","r","a","m","m","i","n","g">> >>],
    [key |-> <<"w","e","b"," ","d","e","v","e","l","o","p","m","e","n","t">>,
     synonyms |-> <<<<"w","e","b"," ","d","e","v","e","l","o","p","m","e","n","t">>,
                    <<"w","e","b"," ","d","e","v">>,
                    <<"f","r","o","n","t","e","n","d">>,
                    <<"b","a","c","k","e","n","d">> >>]
>>

\* str literals the checks and the drawn inputs use
S_python == <<"p","y","t","h","o","n">>
S_py == <<"p","y">>
S_java == <<"j","a","v","a">>
S_database == <<"d","a","t","a","b","a","s","e">>
S_databases == <<"d","a","t","a","b","a","s","e","s">>
S_management == <<"m","a","n","a","g","e","m","e","n","t">>
S_management_systems == <<"m","a","n","a","g","e","m","e","n","t"," ","s","y","s","t","e","m","s">>
S_communication == <<"c","o","m","m","u","n","i","c","a","t","i","o","n">>
S_leadership == <<"l","e","a","d","e","r","s","h","i","p">>
S_problem_solving == <<"p","r","o","b","l","e","m"," ","s","o","l","v","i","n","g">>
S_art == <<"a","r","t">>
S_artistic == <<"a","r","t","i","s","t","i","c">>
S_Python_padded == <<" ","P","y","t","h","o","n">>
S_PY == <<"P","Y">>

\* x in lst, for a list
InList(x, lst) == \E i \in DOMAIN lst : lst[i] = x

\* the containment test made in one direction only
are_synonyms_one_way(w1, w2) ==
    IF w1 = w2 THEN TRUE
    ELSE IF \E k \in DOMAIN skill_synonyms :
                /\ InList(w1, skill_synonyms[k].synonyms)
                /\ InList(w2, skill_synonyms[k].synonyms)
         THEN TRUE
    ELSE IF Len(w1) > 3 /\ Len(w2) > 3 /\ IsSubstring(w1, w2)
         THEN TRUE
    ELSE FALSE

\* the length test off by one: len(...) >= 3
are_synonyms_short(w1, w2) ==
    IF w1 = w2 THEN TRUE
    ELSE IF \E k \in DOMAIN skill_synonyms :
                /\ InList(w1, skill_synonyms[k].synonyms)
                /\ InList(w2, skill_synonyms[k].synonyms)
         THEN TRUE
    ELSE IF Len(w1) >= 3 /\ Len(w2) >= 3 /\ (IsSubstring(w1, w2) \/ IsSubstring(w2, w1))
         THEN TRUE
    ELSE FALSE

are_synonyms(w1, w2) ==
    \* Direct match
    IF w1 = w2 THEN TRUE
    \* Check in synonym dictionary
    ELSE IF \E k \in DOMAIN skill_synonyms :
                /\ InList(w1, skill_synonyms[k].synonyms)
                /\ InList(w2, skill_synonyms[k].synonyms)
         THEN TRUE
    \* Check if one word contains the other (for variations)
    ELSE IF Len(w1) > 3 /\ Len(w2) > 3 /\ (IsSubstring(w1, w2) \/ IsSubstring(w2, w1))
         THEN TRUE
    ELSE FALSE

-----------------------------------------------------------------------------
(* ResumeProcessor.match_keywords                                          *)

\* {kw.lower().strip() for kw in keywords}
keyword_set(keywords) == {strip(lower(keywords[i])) : i \in DOMAIN keywords}

\* The orders in which a for loop may enumerate a set.
RECURSIVE Orders(_)
Orders(S) ==
    IF S = {} THEN {<<>>}
    ELSE UNION {{<<x>> \o q : q \in Orders(S \ {x})} : x \in S}

\* list(S): the elements of S in an order no operation of the model reads
RECURSIVE list(_)
list(S) ==
    IF S = {} THEN <<>>
    ELSE LET x == CHOOSE y \in S : TRUE IN <<x>> \o list(S \ {x})

\* the inner loop leaving after the first candidate, synonym or not
synonym_hit_first(job_kw, resume_iter) ==
    resume_iter # <<>> /\ are_synonyms(job_kw, Head(resume_iter))

\* for resume_kw in resume_set: if self._are_synonyms(job_kw, resume_kw): ... break
RECURSIVE synonym_hit(_, _)
synonym_hit(job_kw, resume_iter) ==
    IF resume_iter = <<>> THEN FALSE
    ELSE IF are_synonyms(job_kw, Head(resume_iter)) THEN TRUE
    ELSE synonym_hit(job_kw, Tail(resume_iter))

\* the loop without its test "job_kw not in exact_matches"
RECURSIVE partial_loop_unguarded(_, _, _, _)
partial_loop_unguarded(job_iter, resume_iter, exact_matches, partial_matches) ==
    IF job_iter = <<>> THEN partial_matches
    ELSE LET job_kw == Head(job_iter)
             hit == synonym_hit(job_kw, resume_iter)
         IN partial_loop_unguarded(Tail(job_iter), resume_iter, exact_matches,
                         IF hit THEN partial_matches \cup {job_kw} ELSE partial_matches)

\* for job_kw in job_set: if job_kw not in exact_matches: ... partial_matches.add(job_kw)
RECURSIVE partial_loop(_, _, _, _)
partial_loop(job_iter, resume_iter, exact_matches, partial_matches) ==
    IF job_iter = <<>> THEN partial_matches
    ELSE LET job_kw == Head(job_iter)
             hit == job_kw \notin exact_matches /\ synonym_hit(job_kw, resume_iter)
         IN partial_loop(Tail(job_iter), resume_iter, exact_matches,
                         IF hit THEN partial_matches \cup {job_kw} ELSE partial_matches)

\* match_keywords with the resume keywords left as they were passed
match_keywords_raw_resume(resume_kws, job_kws, job_iter, resume_iter) ==
    LET resume_set == Range(resume_kws)
        job_set == keyword_set(job_kws)
        exact_matches == resume_set \cap job_set
        partial_matches == partial_loop(job_iter, list(resume_set), exact_matches, {})
        matched == exact_matches \cup partial_matches
        missing == job_set \ matched
    IN [matched |-> list(matched),
        missing |-> list(missing),
        exact_matches |-> list(exact_matches),
        partial_matches |-> list(partial_matches)]

\* match_keywords with the inner loop over job_set instead of resume_set
match_keywords_inner_job(resume_kws, job_kws, job_iter, resume_iter) ==
    LET resume_set == keyword_set(resume_kws)
        job_set == keyword_set(job_kws)
        exact_matches == resume_set \cap job_set
        partial_matches == partial_loop(job_iter, job_iter, exact_matches, {})
        matched == exact_matches \cup partial_matches
        missing == job_set \ matched
    IN [matched |-> list(matched),
        missing |-> list(missing),
        exact_matches |-> list(exact_matches),
        partial_matches |-> list(partial_matches)]

\* job_iter and resume_iter are the orders in which the two loops enumerate
\* job_set and resume_set.
match_keywords(resume_kws, job_kws, job_iter, resume_iter) ==
    LET resume_set == keyword_set(resume_kws)
        job_set == keyword_set(job_kws)
        exact_matches == resume_set \cap job_set
        partial_matches == partial_loop(job_iter, resume_iter, exact_matches, {})
        matched == exact_matches \cup partial_matches
        missing == job_set \ matched
    IN [matched |-> list(matched),
        missing |-> list(missing),
        exact_matches |-> list(exact_matches),
        partial_matches |-> list(partial_matches)]

-----------------------------------------------------------------------------
(* Python float arithmetic (IEEE 754 binary64, round to nearest, ties to   *)
(* even) as calculate_match_score uses it: int / int, float * int, int().  *)
(* A positive float is [f1, f2, f3, exp], its 53-bit significand cut into  *)
(* the leading 1 and fraction limbs of 18, 18 and 16 bits:                 *)
(*     (1 + f1 / 2^18 + f2 / 2^36 + f3 / 2^52) * 2^exp                     *)
(* Every intermediate value stays below 2^31 for operands below 2^12.      *)

RECURSIVE Pow2(_)
Pow2(n) == IF n = 0 THEN 1 ELSE 2 * Pow2(n - 1)

Limb12Bits == 18
Limb3Bits == 16

FloatZero == [f1 |-> 0, f2 |-> 0, f3 |-> 0, exp |-> 0, zero |-> TRUE]

Float(f1, f2, f3, exp) == [f1 |-> f1, f2 |-> f2, f3 |-> f3, exp |-> exp, zero |-> FALSE]

\* the float next above 1.f1 f2 f3 * 2^exp when up, the float itself when not
RoundedFloat(f1, f2, f3, exp, up) ==
    LET g3 == IF up THEN f3 + 1 ELSE f3
        c3 == g3 \div Pow2(Limb3Bits)
        g2 == f2 + c3
        c2 == g2 \div Pow2(Limb12Bits)
        g1 == f1 + c2
        c1 == g1 \div Pow2(Limb12Bits)
    IN  \* a carry out of the fraction gives 10.000...: 1.0 * 2^(exp + 1)
        IF c1 = 1 THEN Float(0, 0, 0, exp + 1)
        ELSE Float(g1, g2 % Pow2(Limb12Bits), g3 % Pow2(Limb3Bits), exp)

\* round to nearest, ties to even: guard is the first dropped bit, sticky
\* says a dropped bit below it is set
RoundsUp(f3, guard, sticky) == guard = 1 /\ (sticky \/ f3 % 2 = 1)

\* a, b, k with a / b = (m / t) / 2^k and b <= a < 2b
RECURSIVE Normalised(_, _, _)
Normalised(a, b, k) ==
    IF a < b THEN Normalised(2 * a, b, k - 1)
    ELSE IF a >= 2 * b THEN Normalised(a, 2 * b, k + 1)
    ELSE [a |-> a, b |-> b, k |-> k]

\* m / t for ints m >= 0, t > 0: true division, correctly rounded.
\* Long division gives 54 fraction bits d1 d2 d3 of a / b and a remainder.
true_divide(m, t) ==
    IF m = 0 THEN FloatZero
    ELSE LET nz == Normalised(m, t, 0)
             b == nz.b
             r0 == nz.a - b
             d1 == (r0 * Pow2(Limb12Bits)) \div b
             r1 == (r0 * Pow2(Limb12Bits)) % b
             d2 == (r1 * Pow2(Limb12Bits)) \div b
             r2 == (r1 * Pow2(Limb12Bits)) % b
             d3 == (r2 * Pow2(Limb12Bits)) \div b
             r3 == (r2 * Pow2(Limb12Bits)) % b
             f3 == d3 \div 4
             guard == (d3 \div 2) % 2
             sticky == d3 % 2 = 1 \/ r3 # 0
         IN RoundedFloat(d1, d2, f3, nz.k, RoundsUp(f3, guard, sticky))

\* the position of the top bit of i >= 1
RECURSIVE Log2(_)
Log2(i) == IF i <= 1 THEN 0 ELSE 1 + Log2(i \div 2)

\* x * n for a float x and an int n > 0: the exact product i.l1 l2 l3 of the
\* significand, shifted right by s bits to 1.g1 g2 g3 and rounded
float_times_int(x, n) ==
    IF x.zero THEN FloatZero
    ELSE LET p3 == x.f3 * n
             l3 == p3 % Pow2(Limb3Bits)
             p2 == x.f2 * n + p3 \div Pow2(Limb3Bits)
             l2 == p2 % Pow2(Limb12Bits)
             p1 == x.f1 * n + p2 \div Pow2(Limb12Bits)
             l1 == p1 % Pow2(Limb12Bits)
             i == n + p1 \div Pow2(Limb12Bits)
             s == Log2(i)
             g1 == ((i - Pow2(s)) * Pow2(Limb12Bits) + l1) \div Pow2(s)
             g2 == ((l1 % Pow2(s)) * Pow2(Limb12Bits) + l2) \div Pow2(s)
             g3 == ((l2 % Pow2(s)) * Pow2(Limb3Bits) + l3) \div Pow2(s)
             guard == IF s = 0 THEN 0 ELSE (l3 \div Pow2(s - 1)) % 2
             sticky == s > 0 /\ l3 % Pow2(s - 1) # 0
         IN RoundedFloat(g1, g2, g3, x.exp + s, RoundsUp(g3, guard, sticky))

\* int(x) for a float 0 <= x < 2^31: truncation
int_of_float(x) ==
    IF x.zero \/ x.exp < 0 THEN 0
    ELSE IF x.exp <= Limb12Bits
         THEN Pow2(x.exp) + x.f1 \div Pow2(Limb12Bits - x.exp)
    ELSE Pow2(x.exp) + x.f1 * Pow2(x.exp - Limb12Bits)
                     + x.f2 \div Pow2(2 * Limb12Bits - x.exp)

-----------------------------------------------------------------------------
(* ResumeProcessor.calculate_match_score                                   *)

Min(a, b) == IF a <= b THEN a ELSE b

\* the ratio taken with floor division: len(matched) // len(total) * 100
calculate_match_score_floor_division(matched_kws, total_kws) ==
    IF total_kws = <<>> THEN 0
    ELSE Min(100, (Len(matched_kws) \div Len(total_kws)) * 100)

calculate_match_score(matched_kws, total_kws) ==
    IF total_kws = <<>> THEN 0
    ELSE LET match_ratio == true_divide(Len(matched_kws), Len(total_kws))
         IN Min(100, int_of_float(float_times_int(match_ratio, 100)))

-----------------------------------------------------------------------------
(* ANALYSIS_CONFIG["scoring"] and ResumeProcessor.suggest_improvements     *)

\* settings.py: ANALYSIS_CONFIG["scoring"]
ANALYSIS_CONFIG_scoring ==
    [excellent_threshold |-> 85, good_threshold |-> 70, fair_threshold |-> 50]

\* dict.get(key, default); a dict is a function on the keys it holds
get(d, key, default) == IF key \in DOMAIN d THEN d[key] ELSE default

EmptyDict == <<>>

S_quantified == <<"q","u","a","n","t","i","f","i","e","d">>
S_achieved == <<"a","c","h","i","e","v","e","d">>

\* a suggestion: a text, and the keywords an f-string joins into it
Suggestion(txt, kws) == [text |-> txt, keywords |-> kws]

RestructureSuggestion ==
    Suggestion("Consider significantly restructuring your resume to better align with job requirements", <<>>)
AddKeywordsSuggestion ==
    Suggestion("Add more relevant keywords and experiences to improve job match", <<>>)
ExpandSkillsSuggestion ==
    Suggestion("Expand your skills section with more relevant technical and soft skills", <<>>)
QuantifySuggestion ==
    Suggestion("Add quantified achievements and specific results to your experience", <<>>)

\* Score-based suggestions
score_suggestions(score, thresholds) ==
    IF score < thresholds.fair_threshold THEN <<RestructureSuggestion>>
    ELSE IF score < thresholds.good_threshold THEN <<AddKeywordsSuggestion>>
    ELSE <<>>

\* Missing keywords suggestions: missing_keywords[:5]
missing_suggestions(missing) ==
    IF missing # <<>>
    THEN <<Suggestion("Include these important keywords: ", SubSeq(missing, 1, Min(5, Len(missing))))>>
    ELSE <<>>

\* Section-specific suggestions
skills_suggestions(results) ==
    IF "skills" \in DOMAIN results /\ Len(split(results["skills"])) < 10
    THEN <<ExpandSkillsSuggestion>> ELSE <<>>

experience_suggestions(results) ==
    IF /\ "experience" \in DOMAIN results
       /\ ~IsSubstring(S_quantified, lower(results["experience"]))
       /\ ~IsSubstring(S_achieved, lower(results["experience"]))
    THEN <<QuantifySuggestion>> ELSE <<>>

suggest_improvements(results, thresholds) ==
    LET missing == get(results, "missing_keywords", <<>>)
        score == get(results, "match_score", 0)
    IN score_suggestions(score, thresholds) \o missing_suggestions(missing)
       \o skills_suggestions(results) \o experience_suggestions(results)

-----------------------------------------------------------------------------
(* ResumeProcessor.stop_words, extract_keywords and _extract_phrases       *)

stop_words == {
    <<"t","h","e">>, <<"a","n","d">>, <<"o","r">>, <<"b","u","t">>, <<"i","n">>, <<"o","n">>,
    <<"a","t">>, <<"t","o">>, <<"f","o","r">>, <<"o","f">>, <<"w","i","t","h">>, <<"b","y">>,
    <<"i","s">>, <<"a","r","e">>, <<"w","a","s">>, <<"w","e","r","e">>, <<"b","e">>,
    <<"b","e","e","n">>, <<"b","e","i","n","g">>, <<"h","a","v","e">>, <<"h","a","s">>,
    <<"h","a","d">>, <<"d","o">>, <<"d","o","e","s">>, <<"d","i","d">>, <<"w","i","l","l">>,
    <<"w","o","u","l","d">>, <<"c","o","u","l","d">>, <<"s","h","o","u","l","d">>,
    <<"m","a","y">>, <<"m","i","g","h","t">>, <<"m","u","s","t">>, <<"c","a","n">>,
    <<"t","h","i","s">>, <<"t","h","a","t">>, <<"t","h","e","s","e">>, <<"t","h","o","s","e">>,
    <<"a">>, <<"a","n">>}

\* re.findall(r'\b\w+\b', s): the maximal runs of word characters of s, left
\* to right; word is the run being read
RECURSIVE findall_words(_, _)
findall_words(s, word) ==
    LET run == IF word = <<>> THEN <<>> ELSE <<word>>
    IN IF s = <<>> THEN run
       ELSE IF IsWordChar(Head(s)) THEN findall_words(Tail(s), Append(word, Head(s)))
       ELSE run \o findall_words(Tail(s), <<>>)

\* the alternatives of the four patterns of _extract_phrases, each pattern
\* being \b(?:alternative|...)\b
phrase_patterns == <<
    <<<<"m","a","c","h","i","n","e"," ","l","e","a","r","n","i","n","g">>,
      <<"a","r","t","i","f","i","c","i","a","l"," ","i","n","t","e","l","l","i","g","e","n","c","e">>,
      <<"d","a","t","a"," ","s","c","i","e","n","c","e">>,
      <<"s","o","f","t","w","a","r","e"," ","e","n","g","i","n","e","e","r","i","n","g">>>>,
    <<<<"p","r","o","j","e","c","t"," ","m","a","n","a","g","e","m","e","n","t">>,
      <<"t","e","a","m"," ","l","e","a","d","e","r","s","h","i","p">>,
      <<"c","u","s","t","o","m","e","r"," ","s","e","r","v","i","c","e">>>>,
    <<<<"w","e","b"," ","d","e","v","e","l","o","p","m","e","n","t">>,
      <<"m","o","b","i","l","e"," ","d","e","v","e","l","o","p","m","e","n","t">>,
      <<"d","a","t","a","b","a","s","e"," ","m","a","n","a","g","e","m","e","n","t">>>>,
    <<<<"q","u","a","l","i","t","y"," ","a","s","s","u","r","a","n","c","e">>,
      <<"b","u","s","i","n","e","s","s"," ","a","n","a","l","y","s","i","s">>,
      <<"s","y","s","t","e","m"," ","a","d","m","i","n","i","s","t","r","a","t","i","o","n">>>> >>

\* what \b(?:...)\b with re.IGNORECASE matches at position i of s, or "" if
\* nothing: the alternatives start and end with a letter, so \b asks for no
\* word character right before and right after
match_at(pattern, s, i) ==
    LET fits(alt) ==
            /\ i + Len(alt) - 1 <= Len(s)
            /\ lower(SubSeq(s, i, i + Len(alt) - 1)) = alt
            /\ (i + Len(alt) > Len(s) \/ ~IsWordChar(s[i + Len(alt)]))
        hits == {k \in DOMAIN pattern : fits(pattern[k])}
        first == CHOOSE k \in hits : \A j \in hits : k <= j
    IN IF (i = 1 \/ ~IsWordChar(s[i - 1])) /\ hits # {}
       THEN SubSeq(s, i, i + Len(pattern[first]) - 1)
       ELSE <<>>

\* re.findall(pattern, s, re.IGNORECASE) from position i on: the matches
\* that do not overlap, left to right
RECURSIVE findall_pattern(_, _, _)
findall_pattern(pattern, s, i) ==
    IF i > Len(s) THEN <<>>
    ELSE LET match == match_at(pattern, s, i)
         IN IF match = <<>> THEN findall_pattern(pattern, s, i + 1)
            ELSE <<match>> \o findall_pattern(pattern, s, i + Len(match))

\* for pattern in phrase_patterns: phrases.extend([match.lower() ...]), from
\* the n-th pattern on
RECURSIVE extend_phrases(_, _)
extend_phrases(s, n) ==
    IF n > Len(phrase_patterns) THEN <<>>
    ELSE LET matches == findall_pattern(phrase_patterns[n], s, 1)
         IN [k \in DOMAIN matches |-> lower(matches[k])] \o extend_phrases(s, n + 1)

extract_phrases(s) == extend_phrases(s, 1)

\* keep_words with  len(word) > min_length
keep_words_longer(words, min_len) ==
    SelectSeq(words, LAMBDA word : Len(word) > min_len /\ word \notin stop_words)

\* keywords = [word for word in words if len(word) >= min_length and word
\* not in self.stop_words]
keep_words(words, min_len) ==
    SelectSeq(words, LAMBDA word : Len(word) >= min_len /\ word \notin stop_words)

\* extract_keywords with the length and stop-word test put on the phrases too
extract_keywords_filtered_phrases(t, min_len) ==
    IF t = NoneValue \/ t = <<>> THEN <<>>
    ELSE LET cleaned_text == clean_text(lower(t))
             words == findall_words(cleaned_text, <<>>)
             phrases == extract_phrases(cleaned_text)
         IN list(Range(keep_words(words \o phrases, min_len)))

extract_keywords(t, min_len) ==
    IF t = NoneValue \/ t = <<>> THEN <<>>
    ELSE LET cleaned_text == clean_text(lower(t))
             words == findall_words(cleaned_text, <<>>)
             keywords == keep_words(words, min_len)
             phrases == extract_phrases(cleaned_text)
         IN list(Range(keywords \o phrases))

-----------------------------------------------------------------------------
(* ResumeProcessor.analyze_resume_sections                                 *)

\* section_patterns in the order of the dict; an alternative  stem + c?  is
\* the stem and the optional last character c ("" if it has none)
section_patterns == <<
    [section |-> "contact", alternatives |-> <<
        [stem |-> <<"c","o","n","t","a","c","t">>, optional |-> <<>>],
        [stem |-> <<"p","e","r","s","o","n","a","l">>, optional |-> <<>>],
        [stem |-> <<"a","d","d","r","e","s","s">>, optional |-> <<>>],
        [stem |-> <<"p","h","o","n","e">>, optional |-> <<>>],
        [stem |-> <<"e","m","a","i","l">>, optional |-> <<>>]>>],
    [section |-> "summary", alternatives |-> <<
        [stem |-> <<"s","u","m","m","a","r","y">>, optional |-> <<>>],
        [stem |-> <<"p","r","o","f","i","l","e">>, optional |-> <<>>],
        [stem |-> <<"o","b","j","e","c","t","i","v","e">>, optional |-> <<>>],
        [stem |-> <<"a","b","o","u","t">>, optional |-> <<>>]>>],
    [section |-> "experience", alternatives |-> <<
        [stem |-> <<"e","x","p","e","r","i","e","n","c","e">>, optional |-> <<>>],
        [stem |-> <<"e","m","p","l","o","y","m","e","n","t">>, optional |-> <<>>],
        [stem |-> <<"w","o","r","k">>, optional |-> <<>>],
        [stem |-> <<"c","a","r","e","e","r">>, optional |-> <<>>],
        [stem |-> <<"p","r","o","f","e","s","s","i","o","n","a","l">>, optional |-> <<>>]>>],
    [section |-> "education", alternatives |-> <<
        [stem |-> <<"e","d","u","c","a","t","i","o","n">>, optional |-> <<>>],
        [stem |-> <<"a","c","a","d","e","m","i","c">>, optional |-> <<>>],
        [stem |-> <<"d","e","g","r","e","e">>, optional |-> <<>>],
        [stem |-> <<"u","n","i","v","e","r","s","i","t","y">>, optional |-> <<>>],
        [stem |-> <<"c","o","l","l","e","g","e">>, optional |-> <<>>]>>],
    [section |-> "skills", alternatives |-> <<
        [stem |-> <<"s","k","i","l","l","s">>, optional |-> <<>>],
        [stem |-> <<"t","e","c","h","n","i","c","a","l">>, optional |-> <<>>],
        [stem |-> <<"c","o","m","p","e","t","e","n","c","i","e","s">>, optional |-> <<>>],
        [stem |-> <<"a","b","i","l","i","t","i","e","s">>, optional |-> <<>>]>>],
    [section |-> "certifications", alternatives |-> <<
        [stem |-> <<"c","e","r","t","i","f","i","c","a","t","i","o","n">>, optional |-> <<"s">>],
        [stem |-> <<"l","i","c","e","n","s","e">>, optional |-> <<"s">>],
        [stem |-> <<"c","r","e","d","e","n","t","i","a","l","s">>, optional |-> <<>>]>>],
    [section |-> "projects", alternatives |-> <<
        [stem |-> <<"p","r","o","j","e","c","t">>, optional |-> <<"s">>],
        [stem |-> <<"p","o","r","t","f","o","l","i","o">>, optional |-> <<>>]>>],
    [section |-> "achievements", alternatives |-> <<
        [stem |-> <<"a","c","h","i","e","v","e","m","e","n","t">>, optional |-> <<"s">>],
        [stem |-> <<"a","w","a","r","d">>, optional |-> <<"s">>],
        [stem |-> <<"h","o","n","o","r">>, optional |-> <<"s">>],
        [stem |-> <<"a","c","c","o","m","p","l","i","s","h","m","e","n","t">>, optional |-> <<"s">>]>>] >>

\* re.search(pattern, s): some alternative occurs somewhere in s
search(pattern, s) ==
    \E n \in DOMAIN pattern.alternatives :
        LET alternative == pattern.alternatives[n]
        IN \/ IsSubstring(alternative.stem \o alternative.optional, s)
           \/ IsSubstring(alternative.stem, s)

\* resume_text.split('\n')
RECURSIVE split_lines(_)
split_lines(s) ==
    IF \A i \in DOMAIN s : s[i] # "\n" THEN <<s>>
    ELSE LET n == CHOOSE i \in DOMAIN s :
                      s[i] = "\n" /\ \A j \in 1..(i - 1) : s[j] # "\n"
         IN <<SubSeq(s, 1, n - 1)>> \o split_lines(SubSeq(s, n + 1, Len(s)))

\* '\n'.join(content)
RECURSIVE join(_)
join(content) ==
    IF content = <<>> THEN <<>>
    ELSE IF Len(content) = 1 THEN content[1]
    ELSE content[1] \o <<"\n">> \o join(Tail(content))

\* section_content before the loop: an empty list for every section and 'other'
empty_section_content ==
    [section \in {section_patterns[n].section : n \in DOMAIN section_patterns}
                     \cup {"other"} |-> <<>>]

\* the inner loop with the test  len(line.split()) < 3
found_section_under_three(line) ==
    LET hits == {n \in DOMAIN section_patterns :
                    search(section_patterns[n], lower(line)) /\ Len(split(line)) < 3}
    IN IF hits = {} THEN None
       ELSE section_patterns[CHOOSE n \in hits : \A k \in hits : n <= k].section

\* for section, pattern in section_patterns.items(): the section of the first
\* pattern found in the lower-cased line if the line has at most 3 words,
\* None if found_section stays False
found_section(line) ==
    LET hits == {n \in DOMAIN section_patterns :
                    search(section_patterns[n], lower(line)) /\ Len(split(line)) <= 3}
    IN IF hits = {} THEN None
       ELSE section_patterns[CHOOSE n \in hits : \A k \in hits : n <= k].section

\* the loop body with a header that empties the list of its section
for_line_reset(section, content, raw_line) ==
    LET line == strip(raw_line)
        found == found_section(line)
    IN IF line = <<>> THEN [current_section |-> section, section_content |-> content]
       ELSE IF found # None
       THEN [current_section |-> found,
             section_content |-> [content EXCEPT ![found] = <<>>]]
       ELSE [current_section |-> section,
             section_content |-> [content EXCEPT ![section] = Append(@, line)]]

\* the loop body appending every line, header or not
for_line_keep_header(section, content, raw_line) ==
    LET line == strip(raw_line)
        found == found_section(line)
        current == IF found # None THEN found ELSE section
    IN IF line = <<>> THEN [current_section |-> section, section_content |-> content]
       ELSE [current_section |-> current,
             section_content |-> [content EXCEPT ![current] = Append(@, line)]]

\* the loop body leaving out a line its section already holds
for_line_once(section, content, raw_line) ==
    LET line == strip(raw_line)
        found == found_section(line)
    IN IF line = <<>> THEN [current_section |-> section, section_content |-> content]
       ELSE IF found # None
       THEN [current_section |-> found, section_content |-> content]
       ELSE IF InList(line, content[section])
       THEN [current_section |-> section, section_content |-> content]
       ELSE [current_section |-> section,
             section_content |-> [content EXCEPT ![section] = Append(@, line)]]

\* one iteration of  for line in lines
for_line(section, content, raw_line) ==
    LET line == strip(raw_line)
        found == found_section(line)
    IN IF line = <<>> THEN [current_section |-> section, section_content |-> content]
       ELSE IF found # None
       THEN [current_section |-> found, section_content |-> content]
       ELSE [current_section |-> section,
             section_content |-> [content EXCEPT ![section] = Append(@, line)]]

-----------------------------------------------------------------------------
(* GeminiService._rate_limit and GeminiService.generate_response           *)

\* self.min_request_interval
min_request_interval == 1

\* a generate_content call of attempt k and what it did: "text" (a response
\* with text), "empty" (a response without) or "raises"
ContentCall(k, what, response_text) ==
    [event |-> "generate_content", attempt |-> k, what |-> what,
     text |-> response_text, seconds |-> 0]

\* a time.sleep call in attempt k: what is "rate_limit" or "backoff"
SleepCall(k, what, seconds) ==
    [event |-> "sleep", attempt |-> k, what |-> what, text |-> <<>>,
     seconds |-> seconds]

\* _rate_limit() in attempt k at time t: the sleep it makes, the time after
\* it and the new self.last_request_time
rate_limit(k, t, last) ==
    LET time_since_last == t - last
        pause == min_request_interval - time_since_last
    IN IF time_since_last < min_request_interval
       THEN [events |-> <<SleepCall(k, "rate_limit", pause)>>,
             now |-> t + pause, last_request_time |-> t + pause]
       ELSE [events |-> <<>>, now |-> t, last_request_time |-> t]

\* the test with  if response.text.strip():
has_text_stripped(response_text) == strip(response_text) # <<>>

\* if response.text:
has_text(response_text) == response_text # <<>>

\* the wait without the exponent
wait_time_constant(k) == 2

\* wait_time = (2 ** attempt) * 2
wait_time(k) == Pow2(k) * 2

\* what generate_response raises: the exception of the last attempt
ExceptionValue == <<"Exception">>

-----------------------------------------------------------------------------
(* GeminiService.__init__                                                  *)

model_names_to_try ==
    <<"gemini-1.5-flash", "gemini-1.5-pro", "models/gemini-1.5-flash",
      "models/gemini-1.5-pro", "gemini-pro">>

\* what the try block of the loop can do for a model name:
\* genai.GenerativeModel raises, generate_content("Test") raises, it returns
\* a response that is false, it returns one that is true
TryOutcomes == {"constructor_raises", "test_raises", "test_false", "test_ok"}

\* self.model after the try block: the assignment comes before the test
model_after_try(current, model_name, what) ==
    IF what = "constructor_raises" THEN current ELSE model_name

\* if test_response: ... break
leaves_loop(what) == what = "test_ok"

-----------------------------------------------------------------------------
(* ResumeProcessor.__init__ and the objects its operations are handed      *)

\* settings.py: ANALYSIS_CONFIG["keyword_matching"]; the weights are kept
\* as the literals of the source, no operation computes with them
ANALYSIS_CONFIG_keyword_matching ==
    [exact_match_weight |-> "1.0", partial_match_weight |-> "0.7",
     synonym_match_weight |-> "0.5", case_sensitive |-> FALSE]

\* ResumeProcessor(): the attributes __init__ assigns, from the
\* configuration cfg that settings.py holds
ResumeProcessor(cfg) ==
    [config |-> cfg,
     scoring_thresholds |-> cfg.scoring,
     keyword_weights |-> cfg.keyword_matching,
     stop_words |-> stop_words,
     skill_synonyms |-> skill_synonyms]

\* the loop  for line in lines  from the line it is at
RECURSIVE for_lines(_, _, _)
for_lines(section, content, rest) ==
    IF rest = <<>> THEN content
    ELSE LET after == for_line(section, content, Head(rest))
         IN for_lines(after.current_section, after.section_content, Tail(rest))

analyze_resume_sections(full_text) ==
    LET content == for_lines("other", empty_section_content, split_lines(full_text))
    IN [section \in DOMAIN content |-> join(content[section])]

\* an operation that normalises the resume keywords of match_keywords where
\* they are, instead of building resume_set
objects_after_normalising(op, slf, args) ==
    [self |-> slf,
     args |-> IF op = "match_keywords"
              THEN <<[i \in DOMAIN args[1] |-> strip(lower(args[1][i]))], args[2]>>
              ELSE args]

\* self and the arguments when operation op returns: the operations assign
\* to local names only (text = re.sub(...), resume_set = {...}), and the
\* objects they extend (phrases, partial_matches, section_content,
\* suggestions) are built inside the call
objects_after(op, slf, args) == [self |-> slf, args |-> args]

\* what a call leaves behind: the operation, its arguments before and after,
\* and what it returned
Called(op, args, after, returned) ==
    [op |-> op, args |-> args, args_after |-> after.args, returned |-> returned]

-----------------------------------------------------------------------------
(* FileHandler.validate_file and FileHandler.extract_text_from_file        *)

\* settings.py: FILE_CONFIG["max_pages"]
max_pages == 10

\* settings.py: FILE_CONFIG["supported_formats"], the max_size of each
supported_formats == <<
    [extension |-> <<"p","d","f">>, max_size |-> 10 * 1024 * 1024],
    [extension |-> <<"d","o","c","x">>, max_size |-> 5 * 1024 * 1024],
    [extension |-> <<"t","x","t">>, max_size |-> 1 * 1024 * 1024] >>

\* uploaded_file is None
NoneFile == [is_None |-> TRUE]

\* name.split('.')[-1]
RECURSIVE split_last(_)
split_last(name) ==
    IF \A i \in DOMAIN name : name[i] # "." THEN name
    ELSE LET n == CHOOSE i \in DOMAIN name :
                      name[i] = "." /\ \A j \in 1..(i - 1) : name[j] # "."
         IN split_last(SubSeq(name, n + 1, Len(name)))

file_extension(file) == lower(split_last(file.name))

\* a call of st.error or st.warning
Message(level, message) == [level |-> level, message |-> message]

Outcome(returned, messages) == [returned |-> returned, messages |-> messages]

validate_file(file) ==
    IF file = NoneFile THEN [is_valid |-> FALSE, error_message |-> "No file uploaded"]
    ELSE LET formats == {n \in DOMAIN supported_formats :
                            supported_formats[n].extension = file_extension(file)}
         IN IF formats = {}
            THEN [is_valid |-> FALSE, error_message |-> "invalid_format"]
            ELSE IF file.size > supported_formats[CHOOSE n \in formats : TRUE].max_size
            THEN [is_valid |-> FALSE, error_message |-> "file_too_large"]
            ELSE [is_valid |-> TRUE, error_message |-> "File is valid"]

\* if not extracted_text: st.warning(...); return ""; else the text
no_text_found(extracted, warning) ==
    IF extracted = <<>> THEN Outcome(<<>>, <<Message("warning", warning)>>)
    ELSE Outcome(extracted, <<>>)

\* _extract_from_pdf: the first max_pages pages joined by "\n" and stripped
extract_from_pdf(file) ==
    IF file.parsed.raises THEN Outcome(<<>>, <<Message("error", "Error reading PDF")>>)
    ELSE LET pages == file.parsed.pages
             text_content == SubSeq(pages, 1, Min(Len(pages), max_pages))
         IN no_text_found(strip(join(text_content)), "No text found in PDF")

\* " | ".join(row_text)
RECURSIVE join_cells(_)
join_cells(row_text) ==
    IF row_text = <<>> THEN <<>>
    ELSE IF Len(row_text) = 1 THEN row_text[1]
    ELSE row_text[1] \o <<" ", "|", " ">> \o join_cells(Tail(row_text))

\* the stripped texts of a list of paragraphs or cells that are not blank
stripped_texts(texts) ==
    LET kept == SelectSeq(texts, LAMBDA t : strip(t) # <<>>)
    IN [i \in DOMAIN kept |-> strip(kept[i])]

\* the rows of all tables that hold a cell with text
RECURSIVE table_rows(_)
table_rows(rows) ==
    IF rows = <<>> THEN <<>>
    ELSE LET row_text == stripped_texts(Head(rows))
         IN (IF row_text # <<>> THEN <<join_cells(row_text)>> ELSE <<>>)
            \o table_rows(Tail(rows))

\* _extract_from_docx: paragraphs, then table rows
extract_from_docx(file) ==
    IF file.parsed.raises THEN Outcome(<<>>, <<Message("error", "Error reading DOCX")>>)
    ELSE LET text_content == stripped_texts(file.parsed.paragraphs)
                                 \o table_rows(file.parsed.rows)
         IN no_text_found(strip(join(text_content)), "No text found in DOCX file")

encodings == <<"utf-8", "utf-16", "latin-1", "cp1252">>

\* _extract_from_txt from encoding number n on: the first decoding that has
\* text is returned stripped
RECURSIVE for_encoding(_, _)
for_encoding(file, n) ==
    IF n > Len(encodings)
    THEN Outcome(<<>>, <<Message("error", "Could not decode text file with any supported encoding")>>)
    ELSE LET decoded == file.parsed.decode[encodings[n]]
         IN IF decoded.raises THEN for_encoding(file, n + 1)
            ELSE IF strip(decoded.text) # <<>> THEN Outcome(strip(decoded.text), <<>>)
            ELSE for_encoding(file, n + 1)

extract_from_txt(file) ==
    IF file.parsed.raises THEN Outcome(<<>>, <<Message("error", "Error reading TXT file")>>)
    ELSE for_encoding(file, 1)

\* extract_text_from_file after a successful validation; the else branch
\* needs an extension that validate_file accepted and that is none of the three
extract_by_extension(file) ==
    LET extension == file_extension(file)
    IN IF extension = <<"p","d","f">> THEN extract_from_pdf(file)
       ELSE IF extension = <<"d","o","c","x">> THEN extract_from_docx(file)
       ELSE IF extension = <<"t","x","t">> THEN extract_from_txt(file)
       ELSE Outcome(<<>>, <<Message("error", "Unsupported file format")>>)

-----------------------------------------------------------------------------
(* JSONOutputParser.parse, LangChainService.analyze_job_description and    *)
(* LangChainService.analyze_resume                                         *)

\* A text the model answers with is a sequence of characters in which a
\* whole JSON document is one element, the name of the document.  A JSON
\* object is a function on its keys, a JSON array at the top is JsonArray.
JsonArray == [kind |-> "list"]
JsonObject(d) == [kind |-> "dict", value |-> d]
JSONDecodeError == [kind |-> "JSONDecodeError"]

startswith(s, prefix) == Len(prefix) <= Len(s) /\ SubSeq(s, 1, Len(prefix)) = prefix
endswith(s, suffix) ==
    Len(suffix) <= Len(s) /\ SubSeq(s, Len(s) - Len(suffix) + 1, Len(s)) = suffix

\* the character of a markdown fence, by its code point
Backtick == "U+0060"
Fence == <<Backtick, Backtick, Backtick>>
FenceJson == Fence \o <<"j","s","o","n">>

\* json.loads(s): the document if s is one document and nothing else
\* (blanks around it aside), JSONDecodeError otherwise
json_loads(s, documents) ==
    LET inner == strip(s)
    IN IF Len(inner) = 1 /\ inner[1] \in DOMAIN documents
       THEN documents[inner[1]] ELSE JSONDecodeError

\* JSONOutputParser.parse: the three fence tests one after the other
parse(response, documents) ==
    LET stripped == strip(response)
        no_json_fence == IF startswith(stripped, FenceJson)
                         THEN SubSeq(stripped, 8, Len(stripped)) ELSE stripped
        no_fence == IF startswith(no_json_fence, Fence)
                    THEN SubSeq(no_json_fence, 4, Len(no_json_fence)) ELSE no_json_fence
        cleaned_text == IF endswith(no_fence, Fence)
                        THEN SubSeq(no_fence, 1, Len(no_fence) - 3) ELSE no_fence
        loaded == json_loads(cleaned_text, documents)
    IN IF loaded = JSONDecodeError
       THEN JsonObject(("error" :> "Failed to parse JSON") @@ ("raw_text" :> response))
       ELSE loaded

\* for key, default_value in default_structure.items():
\*     if key not in parsed_result: parsed_result[key] = default_value
merge_with_defaults(parsed_result, default_structure) ==
    [key \in DOMAIN parsed_result \cup DOMAIN default_structure |->
        IF key \in DOMAIN parsed_result THEN parsed_result[key]
        ELSE default_structure[key]]

job_default_structure ==
    [technical_skills |-> <<>>, soft_skills |-> <<>>,
     experience_level |-> "Not specified", education |-> "Not specified",
     key_responsibilities |-> <<>>, required_qualifications |-> <<>>,
     preferred_qualifications |-> <<>>, company_culture |-> "", key_skills |-> <<>>]

get_default_job_analysis ==
    [technical_skills |-> <<"Python", "Communication", "Problem Solving">>,
     soft_skills |-> <<"Teamwork", "Leadership">>,
     experience_level |-> "Mid-level", education |-> "Bachelor's degree preferred",
     key_responsibilities |-> <<"Develop software solutions">>,
     required_qualifications |-> <<"3+ years experience">>,
     preferred_qualifications |-> <<"Advanced degree">>,
     company_culture |-> "Collaborative environment",
     key_skills |-> <<"Python", "Communication", "Problem Solving", "Teamwork", "Leadership">>]

resume_default_structure ==
    [match_score |-> 0, matched_keywords |-> <<>>, missing_keywords |-> <<>>,
     strengths |-> <<>>, gaps |-> <<>>, recommendations |-> <<>>,
     experience_match |-> "", education_match |-> "", skill_coverage |-> 0]

get_default_resume_analysis ==
    [match_score |-> 50, matched_keywords |-> <<"Python", "Communication">>,
     missing_keywords |-> <<"Leadership", "Problem Solving">>,
     strengths |-> <<"Strong technical background">>,
     gaps |-> <<"Missing leadership experience">>,
     recommendations |-> <<"Add more leadership examples">>,
     experience_match |-> "Partially matches", education_match |-> "Meets requirements",
     skill_coverage |-> 50]

\* if not parsed_result["key_skills"]: key_skills = technical + soft
combine_key_skills(parsed_result, merged) ==
    IF merged["key_skills"] = <<>>
    THEN [merged EXCEPT !["key_skills"] = merged["technical_skills"] \o merged["soft_skills"]]
    ELSE merged

\* if match_score == 0 and matched_keywords: match_score = int((len(matched)
\* / total_keywords) * 100); total_keywords > 0 follows from matched_keywords
calculate_missing_score(merged) ==
    IF merged["match_score"] = 0 /\ merged["matched_keywords"] # <<>>
    THEN LET total_keywords == Len(merged["matched_keywords"]) + Len(merged["missing_keywords"])
         IN [merged EXCEPT !["match_score"] =
                int_of_float(float_times_int(
                    true_divide(Len(merged["matched_keywords"]), total_keywords), 100))]
    ELSE merged

\* the try block of analyze_job_description on what the chain does: it
\* raises, it returns something that is no str (text.strip() raises), or it
\* returns a text; an answer that is no JSON object raises at the merge
analyze_job_description(output, documents) ==
    IF output.kind # "str" THEN get_default_job_analysis
    ELSE LET parsed_result == parse(output.text, documents)
         IN IF parsed_result.kind # "dict" THEN get_default_job_analysis
            ELSE combine_key_skills(parsed_result.value,
                     merge_with_defaults(parsed_result.value, job_default_structure))

analyze_resume(output, documents) ==
    IF output.kind # "str" THEN get_default_resume_analysis
    ELSE LET parsed_result == parse(output.text, documents)
         IN IF parsed_result.kind # "dict" THEN get_default_resume_analysis
            ELSE calculate_missing_score(
                     merge_with_defaults(parsed_result.value, resume_default_structure))

-----------------------------------------------------------------------------
(* The inputs the initial predicates draw.                                 *)

MaxTextLen == 4
MaxTokenLen == 5
MaxResumeKeywords == 2
MaxJobKeywords == 2
MaxScoreKeywords == 50

\* every str over the alphabet up to length n
Strings(alphabet, n) == UNION {[1..k -> alphabet] : k \in 0..n}

\* every list over the elements up to length n
Lists(elements, n) == UNION {[1..k -> elements] : k \in 0..n}

\* a lower-case and an upper-case letter, two kinds of whitespace, a special
\* character, a kept punctuation mark and the underscore
TextAlphabet == {"a", "B", " ", "\t", "@", ".", "_"}
Texts == Strings(TextAlphabet, MaxTextLen)

\* every surface form of the table, the words of the documented examples, and
\* every short str over two letters
TableTokens == UNION {Range(skill_synonyms[k].synonyms) : k \in DOMAIN skill_synonyms}
Tokens ==
    TableTokens
    \cup {S_java, S_management_systems, S_problem_solving, S_art, S_artistic}
    \cup Strings({"a", "b"}, MaxTokenLen)

\* raw keywords: the same word in several cases and paddings, a table synonym,
\* a substring variant, and an unrelated word
RawKeywords == {S_python, S_Python_padded, S_PY, S_java, S_database, S_databases}

ExampleResume == <<S_python, S_communication>>
ExampleJob == <<S_python, S_communication, S_leadership, S_problem_solving>>

\* a pair with an exact match, two synonym matches and a missing keyword
MixedResume == <<S_python, S_database>>
MixedJob == <<S_Python_padded, S_databases, S_java, S_PY>>

\* a pair whose target keyword has two synonyms among the candidates
S_db == <<"d","b">>
TwoSynonymsResume == <<S_database, S_databases, S_java>>
TwoSynonymsJob == <<S_db, S_python>>

\* a pair whose target list holds a keyword of whitespace only
BlankResume == <<S_python>>
BlankJob == <<<<" ">>, S_python>>

\* a list of n keywords of which only the number matters
Placeholders(n) == [i \in 1..n |-> <<"k">>]

\* a section of n one-letter words
Words(n) == [i \in 1..(2 * n) |-> IF i % 2 = 1 THEN "x" ELSE " "]

\* the dicts suggest_improvements is drawn: each key present or absent
ScoreEntries == {EmptyDict} \cup {"match_score" :> sc : sc \in 0..100}
MissingEntries ==
    {EmptyDict} \cup {"missing_keywords" :> Placeholders(n) : n \in {0, 1, 6}}
SkillsEntries == {EmptyDict} \cup {"skills" :> Words(n) : n \in {9, 10}}
ExperienceEntries ==
    {EmptyDict} \cup {"experience" :> e : e \in {<<"A","c","h","i","e","v","e","d"," ","x">>, <<"d","i","d"," ","y">>}}
AnalysisResults ==
    {a @@ b @@ c @@ d : a \in ScoreEntries, b \in MissingEntries,
                        c \in SkillsEntries, d \in ExperienceEntries}

\* the pieces the texts of extract_keywords are put together from: two
\* catalogue phrases in different letter case, a stop word, a word of 2
\* characters, a plural ending (a word of 1 character on its own), a
\* separator, a special character and the underscore
MaxPieces == 3
Pieces == {<<"M","a","c","h","i","n","e"," ","L","e","a","r","n","i","n","g">>,
           <<"d","a","t","a"," ","s","c","i","e","n","c","e">>,
           <<"T","h","e">>,
           <<"p","y">>,
           <<"s">>,
           <<" ">>,
           <<"@">>,
           <<"_">>}

RECURSIVE Concatenations(_)
Concatenations(n) ==
    IF n = 0 THEN {<<>>}
    ELSE LET shorter == Concatenations(n - 1)
         IN shorter \cup {t \o p : t \in shorter, p \in Pieces}

ExtractorTexts == Concatenations(MaxPieces) \cup {NoneValue}
MinLengths == {1, 2, 3, 20}

\* the lines the resumes are put together from: headers in upper case, a
\* header with blanks around it, a header of 3 words that two patterns
\* match, a line of one word that holds a header word, a line of 5 words
\* that holds one, two content lines and a blank line
MaxLines == 3
L_SKILLS == <<"S","K","I","L","L","S">>
L_Python_SQL == <<"P","y","t","h","o","n",","," ","S","Q","L">>
L_EXPERIENCE == <<"E","X","P","E","R","I","E","N","C","E">>
L_Did_stuff == <<"D","i","d"," ","s","t","u","f","f">>
L_blank == <<" ">>
L_Teamwork == <<"T","e","a","m","w","o","r","k">>
L_My_work == <<"M","y"," ","w","o","r","k"," ","a","t"," ","t","h","e"," ","b","a","n","k">>
L_Skills_and_Experience == <<"S","k","i","l","l","s"," ","a","n","d"," ","E","x","p","e","r","i","e","n","c","e">>
L_Education_padded == <<" ","E","d","u","c","a","t","i","o","n"," ">>
ResumeLines == {L_SKILLS, L_Python_SQL, L_EXPERIENCE, L_Did_stuff,
                L_blank, L_Teamwork, L_My_work, L_Skills_and_Experience, L_Education_padded}

\* the resume of the lines lst
resume_of(lst) == join(lst)

\* the worked example, and a resume that comes back to a section
ExampleSections == resume_of(<<L_SKILLS, L_Python_SQL, L_EXPERIENCE, L_Did_stuff>>)
RepeatedHeader ==
    resume_of(<<L_Did_stuff, L_SKILLS, L_Python_SQL, L_EXPERIENCE, L_My_work,
                L_SKILLS, L_Did_stuff>>)
ResumeTexts ==
    {resume_of(lst) : lst \in Lists(ResumeLines, MaxLines) \ {<<>>}}
        \cup {<<>>, ExampleSections, RepeatedHeader}


\* the values of max_retries, the texts of a response (none, plain, padded,
\* blank) and the seconds a generate_content call may take
MaxRetries == 3
ResponseTexts == {<<>>, <<"o","k">>, <<" ","o","k"," ">>, <<" ">>}
CallSeconds == {0, 1}


\* the configurations settings.py may hold: every order of the three
\* thresholds, and keyword_matching with and without case_sensitive
Thresholds == {50, 70, 85}
WithoutKey(d, key) == [k \in DOMAIN d \ {key} |-> d[k]]
Configurations ==
    {[scoring |-> [excellent_threshold |-> e, good_threshold |-> g, fair_threshold |-> f],
      keyword_matching |-> km] :
        e \in Thresholds, g \in Thresholds, f \in Thresholds,
        km \in {ANALYSIS_CONFIG_keyword_matching,
                [ANALYSIS_CONFIG_keyword_matching EXCEPT !.case_sensitive = TRUE],
                WithoutKey(ANALYSIS_CONFIG_keyword_matching, "case_sensitive")}}

\* the arguments of the calls made on a constructed ResumeProcessor
CallTexts == {NoneValue, <<>>, <<"T","h","e"," ","P","y","@">>,
              <<"d","a","t","a"," ","s","c","i","e","n","c","e","s">>}
CallKeywords == {<<<<S_Python_padded, S_database>>, <<S_python, S_db>>>>,
                 <<BlankResume, BlankJob>>, <<<<>>, <<>>>>}
CallResults ==
    {a @@ b : a \in {EmptyDict} \cup {"match_score" :> sc : sc \in {40, 60, 90}},
              b \in MissingEntries}
CallResumes == {<<>>, ExampleSections}


\* the uploaded files: names with the extension in lower and upper case, with
\* two dots, without a dot and with an extension that is not supported; sizes
\* at and above each limit; and what the library that reads the file gives
N_cv == <<"c","v">>
Parsed_hi == <<"h","i">>
PdfNames == {N_cv \o <<".","p","d","f">>, N_cv \o <<".","P","D","F">>}
DocxNames == {N_cv \o <<".","d","o","c","x">>, N_cv \o <<".","t","x","t",".","d","o","c","x">>}
TxtNames == {N_cv \o <<".","t","x","t">>}
OtherNames == {N_cv \o <<".","e","x","e">>, N_cv, <<"p","d","f",".">>}
FileSizes == {1024, 1 * 1024 * 1024 + 1, 5 * 1024 * 1024 + 1, 10 * 1024 * 1024 + 1}

\* PyPDF2: the reader raises, or the texts of the pages
PdfParsed ==
    {[raises |-> TRUE, pages |-> <<>>]}
    \cup {[raises |-> FALSE, pages |-> p] :
            p \in {<<>>, <<<<>>, <<>>>>, <<<<" ">>, Parsed_hi>>, <<Parsed_hi, Parsed_hi>>,
                   [i \in 1..(max_pages + 1) |-> IF i > max_pages THEN Parsed_hi ELSE <<>>]}}

\* python-docx: Document raises, or the paragraphs and the rows of the tables
DocxParsed ==
    {[raises |-> TRUE, paragraphs |-> <<>>, rows |-> <<>>]}
    \cup {[raises |-> FALSE, paragraphs |-> p, rows |-> r] :
            p \in {<<>>, <<<<" ">>>>, <<<<" ","h","i">>, <<>>>>},
            r \in {<<>>, <<<<<<" ">>, <<>>>>>>, <<<<Parsed_hi, <<" ">>, Parsed_hi>>>>}}

\* bytes.decode(encoding) for the contents b"", b" hi\n", b" \n", b" ",
\* b"\xe9" and b"\xff\xfeh\x00i\x00"; latin-1 decodes every content
Decoded(t) == [raises |-> FALSE, text |-> t]
UnicodeDecodeError == [raises |-> TRUE, text |-> <<>>]
Decodings(utf8, utf16, latin1, cp1252) ==
    [raises |-> FALSE,
     decode |-> [e \in {"utf-8", "utf-16", "latin-1", "cp1252"} |->
                    CASE e = "utf-8" -> utf8 [] e = "utf-16" -> utf16
                      [] e = "latin-1" -> latin1 [] e = "cp1252" -> cp1252]]
TxtParsed ==
    {[raises |-> TRUE, decode |-> <<>>],
     Decodings(Decoded(<<>>), Decoded(<<>>), Decoded(<<>>), Decoded(<<>>)),
     Decodings(Decoded(<<" ","h","i","\n">>), Decoded(<<"U+6820","U+0A69">>),
               Decoded(<<" ","h","i","\n">>), Decoded(<<" ","h","i","\n">>)),
     Decodings(Decoded(<<" ","\n">>), Decoded(<<"U+0A20">>),
               Decoded(<<" ","\n">>), Decoded(<<" ","\n">>)),
     Decodings(Decoded(<<" ">>), UnicodeDecodeError, Decoded(<<" ">>), Decoded(<<" ">>)),
     Decodings(UnicodeDecodeError, UnicodeDecodeError, Decoded(<<"U+00E9">>), Decoded(<<"U+00E9">>)),
     Decodings(UnicodeDecodeError, Decoded(Parsed_hi),
               Decoded(<<"U+00FF","U+00FE","h","U+0000","i","U+0000">>),
               Decoded(<<"U+00FF","U+00FE","h","U+0000","i","U+0000">>))}

File(name, size, parsed) == [name |-> name, size |-> size, parsed |-> parsed]
UploadedFiles ==
    {NoneFile}
    \cup {File(n, s, p) : n \in PdfNames, s \in FileSizes, p \in PdfParsed}
    \cup {File(n, s, p) : n \in DocxNames, s \in FileSizes, p \in DocxParsed}
    \cup {File(n, s, p) : n \in TxtNames, s \in FileSizes, p \in TxtParsed}
    \cup {File(n, s, [raises |-> FALSE]) : n \in OtherNames, s \in FileSizes}


\* the JSON documents of the answers to the job prompt: every key, no key,
\* the two skill lists only, an empty key_skills next to a skill list, a key
\* the prompt did not ask for, and an array
JobDocuments ==
    ("{job: all keys}" :> JsonObject(
        [technical_skills |-> <<"Go">>, soft_skills |-> <<"Writing">>,
         experience_level |-> "Senior", education |-> "None",
         key_responsibilities |-> <<"Run the team">>, required_qualifications |-> <<"Go">>,
         preferred_qualifications |-> <<"SQL">>, company_culture |-> "Remote",
         key_skills |-> <<"Go">>]))
    @@ ("{}" :> JsonObject(EmptyDict))
    @@ ("{job: skills}" :> JsonObject(
        [technical_skills |-> <<"Python">>, soft_skills |-> <<"Teamwork">>]))
    @@ ("{job: empty key_skills}" :> JsonObject(
        [technical_skills |-> <<"Python">>, key_skills |-> <<>>]))
    @@ ("{job: salary}" :> JsonObject([key_skills |-> <<"Go">>, salary |-> "high"]))
    @@ ("[]" :> JsonArray)

\* the JSON documents of the answers to the resume prompt: every key, no
\* key, a score of 0 next to matched keywords, matched keywords without a
\* score, a score of 0 without matched keywords, and an array
ResumeDocuments ==
    ("{resume: all keys}" :> JsonObject(
        [match_score |-> 80, matched_keywords |-> <<"Go">>, missing_keywords |-> <<"SQL">>,
         strengths |-> <<"Go">>, gaps |-> <<"SQL">>, recommendations |-> <<"Learn SQL">>,
         experience_match |-> "Good", education_match |-> "Good", skill_coverage |-> 50]))
    @@ ("{}" :> JsonObject(EmptyDict))
    @@ ("{resume: score 0}" :> JsonObject(
        [match_score |-> 0, matched_keywords |-> <<"Python">>,
         missing_keywords |-> <<"Go", "SQL">>]))
    @@ ("{resume: matched}" :> JsonObject([matched_keywords |-> <<"Python">>]))
    @@ ("{resume: nothing matched}" :> JsonObject(
        [match_score |-> 0, matched_keywords |-> <<>>, missing_keywords |-> <<"Go">>]))
    @@ ("[]" :> JsonArray)

\* the texts around a document: none, blanks, a json fence, a plain fence, a
\* fence that is not closed, both fences, words before the document; and the
\* texts without a document
AnswersWith(d) ==
    {<<d>>, <<" ", d, "\n">>,
     FenceJson \o <<"\n", d, "\n">> \o Fence,
     Fence \o <<d>> \o Fence,
     FenceJson \o <<d>>,
     FenceJson \o Fence \o <<d>>,
     <<"H","i",":"," ", d>>}
AnswersWithout == {<<>>, Fence, <<"n","o">>}
ChainOutputs(documents) ==
    {[kind |-> "raises", text |-> <<>>], [kind |-> "dict", text |-> <<>>]}
    \cup {[kind |-> "str", text |-> t] :
            t \in AnswersWithout \cup UNION {AnswersWith(d) : d \in DOMAIN documents}}

-----------------------------------------------------------------------------
(* The callers: each specification draws the arguments of one operation    *)
(* and applies it.                                                         *)

NormIdle == text = None /\ cleaned = None /\ recleaned = None
SynIdle == word1 = None /\ word2 = None /\ synonyms = None
MatchIdle == resume_keywords = None /\ job_keywords = None /\ result = None
ScoreIdle == matched_keywords = None /\ total_job_keywords = None /\ match_score = None
TierIdle == scoring_thresholds = None /\ analysis_results = None /\ suggestions = None
ExtrIdle == min_length = None /\ all_keywords = None
SegIdle ==
    /\ resume_text = None /\ lines = None /\ line_index = None
    /\ current_section = None /\ section_content = None /\ sections = None
ProcIdle == config = None /\ self = None /\ call = None
FileIdle == uploaded_file = None /\ extracted_text = None /\ st_messages = None
GeminiInitIdle == api_key = None /\ tried = None /\ model = None
GeminiIdle ==
    /\ max_retries = None /\ attempt = None /\ events = None
    /\ now = None /\ last_request_time = None /\ generated = None
LangChainIdle == chain_output = None /\ analysis = None
\* no operation of ResumeProcessor has been called on its own
CoreIdle ==
    /\ NormIdle /\ SynIdle /\ MatchIdle /\ ScoreIdle /\ TierIdle
    /\ ExtrIdle /\ SegIdle
\* the operations of the services and of FileHandler have made no call
ServicesIdle ==
    ProcIdle /\ FileIdle /\ GeminiInitIdle /\ GeminiIdle /\ LangChainIdle

\* ---- clean_text
InitNormalizer ==
    /\ pc = "clean_text"
    /\ text \in Texts
    /\ cleaned = None /\ recleaned = None
    /\ SynIdle /\ MatchIdle /\ ScoreIdle /\ TierIdle /\ ExtrIdle /\ SegIdle
    /\ ServicesIdle

CleanText ==
    /\ pc = "clean_text"
    /\ cleaned' = clean_text(text)
    /\ pc' = "cleaned"
    /\ UNCHANGED <<text, recleaned, synVars, matchVars, scoreVars, tierVars,
                   extrVars, segVars,
                   procVars, fileVars, initVars, gemVars, lcVars>>

\* clean_text applied to its own output
CleanTextAgain ==
    /\ pc = "cleaned"
    /\ recleaned' = clean_text(cleaned)
    /\ pc' = "recleaned"
    /\ UNCHANGED <<text, cleaned, synVars, matchVars, scoreVars, tierVars,
                   extrVars, segVars,
                   procVars, fileVars, initVars, gemVars, lcVars>>

NextNormalizer == CleanText \/ CleanTextAgain

SpecNormalizer == InitNormalizer /\ [][NextNormalizer]_vars

\* ---- _are_synonyms
InitSynonym ==
    /\ pc = "are_synonyms"
    /\ word1 \in Tokens /\ word2 \in Tokens
    /\ synonyms = <<>>
    /\ NormIdle /\ MatchIdle /\ ScoreIdle /\ TierIdle /\ ExtrIdle /\ SegIdle
    /\ ServicesIdle

AreSynonyms ==
    /\ pc = "are_synonyms"
    /\ synonyms' = <<are_synonyms(word1, word2)>>
    /\ pc' = "are_synonyms_swapped"
    /\ UNCHANGED <<word1, word2, normVars, matchVars, scoreVars, tierVars,
                   extrVars, segVars,
                   procVars, fileVars, initVars, gemVars, lcVars>>

\* the same call with the arguments exchanged
AreSynonymsSwapped ==
    /\ pc = "are_synonyms_swapped"
    /\ synonyms' = Append(synonyms, are_synonyms(word2, word1))
    /\ pc' = "synonyms_done"
    /\ UNCHANGED <<word1, word2, normVars, matchVars, scoreVars, tierVars,
                   extrVars, segVars,
                   procVars, fileVars, initVars, gemVars, lcVars>>

NextSynonym == AreSynonyms \/ AreSynonymsSwapped

SpecSynonym == InitSynonym /\ [][NextSynonym]_vars

\* ---- match_keywords, then calculate_match_score on its result
InitMatcher ==
    /\ pc = "match_keywords"
    /\ \/ /\ resume_keywords \in Lists(RawKeywords, MaxResumeKeywords)
          /\ job_keywords \in Lists(RawKeywords, MaxJobKeywords)
       \/ /\ resume_keywords = ExampleResume
          /\ job_keywords = ExampleJob
       \/ /\ resume_keywords = MixedResume
          /\ job_keywords = MixedJob
       \/ /\ resume_keywords = TwoSynonymsResume
          /\ job_keywords = TwoSynonymsJob
       \/ /\ resume_keywords = BlankResume
          /\ job_keywords = BlankJob
    /\ result = None
    /\ NormIdle /\ SynIdle /\ ScoreIdle /\ TierIdle /\ ExtrIdle /\ SegIdle
    /\ ServicesIdle

MatchKeywords ==
    /\ pc = "match_keywords"
    /\ \E job_iter \in Orders(keyword_set(job_keywords)) :
       \E resume_iter \in Orders(keyword_set(resume_keywords)) :
           result' = match_keywords(resume_keywords, job_keywords, job_iter, resume_iter)
    /\ pc' = "matched"
    /\ UNCHANGED <<resume_keywords, job_keywords, normVars, synVars, scoreVars, tierVars,
                   extrVars, segVars,
                   procVars, fileVars, initVars, gemVars, lcVars>>

\* the partition's matched list scored against the job keywords
ScoreMatch ==
    /\ pc = "matched"
    /\ matched_keywords' = result.matched
    /\ total_job_keywords' = job_keywords
    /\ pc' = "calculate_match_score"
    /\ UNCHANGED <<match_score, normVars, synVars, matchVars, tierVars,
                   extrVars, segVars,
                   procVars, fileVars, initVars, gemVars, lcVars>>

CalculateMatchScore ==
    /\ pc = "calculate_match_score"
    /\ match_score' = calculate_match_score(matched_keywords, total_job_keywords)
    /\ pc' = "scored"
    /\ UNCHANGED <<matched_keywords, total_job_keywords,
                   normVars, synVars, matchVars, tierVars,
                   extrVars, segVars,
                   procVars, fileVars, initVars, gemVars, lcVars>>

NextMatcher == MatchKeywords \/ ScoreMatch \/ CalculateMatchScore

SpecMatcher == InitMatcher /\ [][NextMatcher]_vars

\* ---- calculate_match_score on lists of every length
InitScore ==
    /\ pc = "calculate_match_score"
    /\ \E m \in 0..MaxScoreKeywords : matched_keywords = Placeholders(m)
    /\ \E t \in 0..MaxScoreKeywords : total_job_keywords = Placeholders(t)
    /\ match_score = None
    /\ NormIdle /\ SynIdle /\ MatchIdle /\ TierIdle /\ ExtrIdle /\ SegIdle
    /\ ServicesIdle

NextScore == CalculateMatchScore

SpecScore == InitScore /\ [][NextScore]_vars


\* ---- suggest_improvements, under the configuration ResumeProcessor loads
InitTier ==
    /\ pc = "suggest_improvements"
    /\ scoring_thresholds = ANALYSIS_CONFIG_scoring
    /\ analysis_results \in AnalysisResults
    /\ suggestions = None
    /\ NormIdle /\ SynIdle /\ MatchIdle /\ ScoreIdle /\ ExtrIdle /\ SegIdle
    /\ ServicesIdle

SuggestImprovements ==
    /\ pc = "suggest_improvements"
    /\ suggestions' = suggest_improvements(analysis_results, scoring_thresholds)
    /\ pc' = "suggested"
    /\ UNCHANGED <<scoring_thresholds, analysis_results,
                   normVars, synVars, matchVars, scoreVars,
                   extrVars, segVars,
                   procVars, fileVars, initVars, gemVars, lcVars>>

NextTier == SuggestImprovements

SpecTier == InitTier /\ [][NextTier]_vars


\* extract_keywords(text, min_length)
InitExtractor ==
    /\ pc = "extract_keywords"
    /\ text \in ExtractorTexts /\ cleaned = None /\ recleaned = None
    /\ min_length \in MinLengths
    /\ all_keywords = None
    /\ SynIdle /\ MatchIdle /\ ScoreIdle /\ TierIdle /\ SegIdle
    /\ ServicesIdle

ExtractKeywords ==
    /\ pc = "extract_keywords"
    /\ all_keywords' = extract_keywords(text, min_length)
    /\ pc' = "extracted"
    /\ UNCHANGED <<min_length, normVars, synVars, matchVars, scoreVars,
                   tierVars, segVars,
                   procVars, fileVars, initVars, gemVars, lcVars>>

NextExtractor == ExtractKeywords
SpecExtractor == InitExtractor /\ [][NextExtractor]_vars

\* ---- the three operations on empty and missing input, next to ordinary input
InitEmptyInputs ==
    \/ /\ pc = "clean_text"
       /\ text \in Texts \cup {NoneValue}
       /\ cleaned = None /\ recleaned = None
       /\ SynIdle /\ MatchIdle /\ ScoreIdle /\ TierIdle /\ ExtrIdle /\ SegIdle
       /\ ServicesIdle
    \/ InitExtractor
    \/ /\ pc = "match_keywords"
       /\ resume_keywords \in Lists(RawKeywords, MaxResumeKeywords)
       /\ job_keywords \in Lists(RawKeywords, MaxJobKeywords)
       /\ resume_keywords = <<>> \/ job_keywords = <<>>
       /\ result = None
       /\ NormIdle /\ SynIdle /\ ScoreIdle /\ TierIdle /\ ExtrIdle /\ SegIdle
       /\ ServicesIdle

NextEmptyInputs == CleanText \/ ExtractKeywords \/ MatchKeywords
SpecEmptyInputs == InitEmptyInputs /\ [][NextEmptyInputs]_vars

\* ---- analyze_resume_sections(resume_text), one loop iteration at a time
InitSegmenter ==
    /\ pc = "analyze_resume_sections"
    /\ resume_text \in ResumeTexts
    /\ lines = None /\ line_index = None /\ current_section = None
    /\ section_content = None /\ sections = None
    /\ NormIdle /\ SynIdle /\ MatchIdle /\ ScoreIdle /\ TierIdle /\ ExtrIdle
    /\ ServicesIdle

SplitLines ==
    /\ pc = "analyze_resume_sections"
    /\ lines' = split_lines(resume_text)
    /\ line_index' = 0
    /\ current_section' = "other"
    /\ section_content' = empty_section_content
    /\ pc' = "for_line"
    /\ UNCHANGED <<resume_text, sections, normVars, synVars, matchVars,
                   scoreVars, tierVars, extrVars,
                   procVars, fileVars, initVars, gemVars, lcVars>>

ForLine ==
    /\ pc = "for_line"
    /\ line_index < Len(lines)
    /\ LET after == for_line(current_section, section_content, lines[line_index + 1])
       IN /\ current_section' = after.current_section
          /\ section_content' = after.section_content
    /\ line_index' = line_index + 1
    /\ UNCHANGED <<pc, resume_text, lines, sections, normVars, synVars,
                   matchVars, scoreVars, tierVars, extrVars,
                   procVars, fileVars, initVars, gemVars, lcVars>>

JoinSections ==
    /\ pc = "for_line"
    /\ line_index = Len(lines)
    /\ sections' = [section \in DOMAIN section_content |->
                       join(section_content[section])]
    /\ pc' = "returned"
    /\ UNCHANGED <<resume_text, lines, line_index, current_section,
                   section_content, normVars, synVars, matchVars, scoreVars,
                   tierVars, extrVars,
                   procVars, fileVars, initVars, gemVars, lcVars>>

NextSegmenter == SplitLines \/ ForLine \/ JoinSections
SpecSegmenter == InitSegmenter /\ [][NextSegmenter]_vars

\* ---- GeminiService.generate_response(prompt, max_retries), one attempt at
\* ---- a time; the service is new (last_request_time = 0) or has just
\* ---- answered a request
InitGemini ==
    /\ pc = "generate_response"
    /\ max_retries \in 0..MaxRetries
    /\ attempt = 0
    /\ events = <<>>
    /\ now = 10
    /\ last_request_time \in {0, 10}
    /\ generated = None
    /\ CoreIdle /\ ProcIdle /\ FileIdle /\ GeminiInitIdle /\ LangChainIdle

\* an attempt whose response has text: return response.text.strip()
AttemptReturnsText ==
    /\ pc = "generate_response" /\ attempt < max_retries
    /\ \E response_text \in ResponseTexts, took \in CallSeconds :
          LET limited == rate_limit(attempt, now, last_request_time)
          IN /\ has_text(response_text)
             /\ events' = events \o limited.events
                              \o <<ContentCall(attempt, "text", response_text)>>
             /\ now' = limited.now + took
             /\ last_request_time' = limited.last_request_time
             /\ generated' = strip(response_text)
    /\ pc' = "returned"
    /\ UNCHANGED <<max_retries, attempt, coreVars, procVars, fileVars,
                   initVars, lcVars>>

\* an attempt whose response has no text: on to the next attempt
AttemptEmpty ==
    /\ pc = "generate_response" /\ attempt < max_retries
    /\ \E response_text \in ResponseTexts, took \in CallSeconds :
          LET limited == rate_limit(attempt, now, last_request_time)
          IN /\ ~has_text(response_text)
             /\ events' = events \o limited.events
                              \o <<ContentCall(attempt, "empty", response_text)>>
             /\ now' = limited.now + took
             /\ last_request_time' = limited.last_request_time
    /\ attempt' = attempt + 1
    /\ UNCHANGED <<pc, max_retries, generated, coreVars, procVars, fileVars,
                   initVars, lcVars>>

\* an attempt that raises before the last: sleep, then the next attempt
AttemptRaisesRetry ==
    /\ pc = "generate_response" /\ attempt < max_retries
    /\ attempt < max_retries - 1
    /\ \E took \in CallSeconds :
          LET limited == rate_limit(attempt, now, last_request_time)
          IN /\ events' = events \o limited.events
                              \o <<ContentCall(attempt, "raises", <<>>),
                                   SleepCall(attempt, "backoff", wait_time(attempt))>>
             /\ now' = limited.now + took + wait_time(attempt)
             /\ last_request_time' = limited.last_request_time
    /\ attempt' = attempt + 1
    /\ UNCHANGED <<pc, max_retries, generated, coreVars, procVars, fileVars,
                   initVars, lcVars>>

\* the last attempt raises: raise e
AttemptRaisesLast ==
    /\ pc = "generate_response" /\ attempt < max_retries
    /\ ~(attempt < max_retries - 1)
    /\ \E took \in CallSeconds :
          LET limited == rate_limit(attempt, now, last_request_time)
          IN /\ events' = events \o limited.events
                              \o <<ContentCall(attempt, "raises", <<>>)>>
             /\ now' = limited.now + took
             /\ last_request_time' = limited.last_request_time
    /\ generated' = ExceptionValue
    /\ pc' = "raised"
    /\ UNCHANGED <<max_retries, attempt, coreVars, procVars, fileVars,
                   initVars, lcVars>>

\* range(max_retries) is used up: return None
ReturnNone ==
    /\ pc = "generate_response" /\ attempt >= max_retries
    /\ generated' = NoneValue
    /\ pc' = "returned"
    /\ UNCHANGED <<max_retries, attempt, events, now, last_request_time,
                   coreVars, procVars, fileVars, initVars, lcVars>>

NextGemini ==
    \/ AttemptReturnsText \/ AttemptEmpty \/ AttemptRaisesRetry
    \/ AttemptRaisesLast \/ ReturnNone
SpecGemini == InitGemini /\ [][NextGemini]_vars

\* ---- GeminiService(), one model name at a time
InitGeminiInit ==
    /\ pc = "GeminiService"
    /\ api_key \in {NoneValue, <<>>, <<"k","e","y">>}
    /\ tried = <<>>
    /\ model = None
    /\ CoreIdle /\ ProcIdle /\ FileIdle /\ GeminiIdle /\ LangChainIdle

\* if not self.api_key: raise ValueError(...)
CheckApiKey ==
    /\ pc = "GeminiService"
    /\ pc' = IF api_key = NoneValue \/ api_key = <<>>
             THEN "raised_ValueError" ELSE "for_model_name"
    /\ UNCHANGED <<api_key, tried, model, coreVars, procVars, fileVars,
                   gemVars, lcVars>>

\* one iteration of  for model_name in model_names_to_try
TryModel ==
    /\ pc = "for_model_name"
    /\ Len(tried) < Len(model_names_to_try)
    /\ \E what \in TryOutcomes :
          LET model_name == model_names_to_try[Len(tried) + 1]
          IN /\ tried' = Append(tried, [model_name |-> model_name, what |-> what])
             /\ model' = model_after_try(model, model_name, what)
             /\ pc' = IF leaves_loop(what) THEN "after_loop" ELSE pc
    /\ UNCHANGED <<api_key, coreVars, procVars, fileVars, gemVars, lcVars>>

\* the list is used up
LoopEnds ==
    /\ pc = "for_model_name"
    /\ Len(tried) = Len(model_names_to_try)
    /\ pc' = "after_loop"
    /\ UNCHANGED <<api_key, tried, model, coreVars, procVars, fileVars,
                   gemVars, lcVars>>

\* if not self.model: raise ValueError(...); else the service is built
FinishInit ==
    /\ pc = "after_loop"
    /\ pc' = IF model = None THEN "raised_ValueError" ELSE "constructed"
    /\ UNCHANGED <<api_key, tried, model, coreVars, procVars, fileVars,
                   gemVars, lcVars>>

NextGeminiInit == CheckApiKey \/ TryModel \/ LoopEnds \/ FinishInit
SpecGeminiInit == InitGeminiInit /\ [][NextGeminiInit]_vars

\* ---- ResumeProcessor() under a configuration, then any sequence of its
\* ---- operations
InitProcessor ==
    /\ pc = "ResumeProcessor"
    /\ config \in Configurations
    /\ self = None
    /\ call = None
    /\ CoreIdle /\ FileIdle /\ GeminiInitIdle /\ GeminiIdle /\ LangChainIdle

Construct ==
    /\ pc = "ResumeProcessor"
    /\ self' = ResumeProcessor(config)
    /\ pc' = "constructed"
    /\ UNCHANGED <<config, call, coreVars, fileVars, initVars, gemVars, lcVars>>

\* operation op, called with the arguments args, returns returned
Returns(op, args, returned) ==
    LET after == objects_after(op, self, args)
    IN /\ self' = after.self
       /\ call' = Called(op, args, after, returned)

CallCleanText ==
    \E t \in CallTexts :
        /\ pc \in {"constructed", "called"}
        /\ Returns("clean_text", <<t>>, clean_text(t))
        /\ pc' = "called"
        /\ UNCHANGED <<config, coreVars, fileVars, initVars, gemVars, lcVars>>

CallExtractKeywords ==
    \E t \in CallTexts, min_len \in {2, 3} :
        /\ pc \in {"constructed", "called"}
        /\ Returns("extract_keywords", <<t, min_len>>, extract_keywords(t, min_len))
        /\ pc' = "called"
        /\ UNCHANGED <<config, coreVars, fileVars, initVars, gemVars, lcVars>>

CallMatchKeywords ==
    \E kws \in CallKeywords :
    \E job_iter \in Orders(keyword_set(kws[2])) :
    \E resume_iter \in Orders(keyword_set(kws[1])) :
        /\ pc \in {"constructed", "called"}
        /\ Returns("match_keywords", kws,
                   match_keywords(kws[1], kws[2], job_iter, resume_iter))
        /\ pc' = "called"
        /\ UNCHANGED <<config, coreVars, fileVars, initVars, gemVars, lcVars>>

CallCalculateMatchScore ==
    \E m \in 0..2, t \in 0..2 :
        /\ pc \in {"constructed", "called"}
        /\ Returns("calculate_match_score", <<Placeholders(m), Placeholders(t)>>,
                   calculate_match_score(Placeholders(m), Placeholders(t)))
        /\ pc' = "called"
        /\ UNCHANGED <<config, coreVars, fileVars, initVars, gemVars, lcVars>>

CallAnalyzeResumeSections ==
    \E r \in CallResumes :
        /\ pc \in {"constructed", "called"}
        /\ Returns("analyze_resume_sections", <<r>>, analyze_resume_sections(r))
        /\ pc' = "called"
        /\ UNCHANGED <<config, coreVars, fileVars, initVars, gemVars, lcVars>>

CallSuggestImprovements ==
    \E results \in CallResults :
        /\ pc \in {"constructed", "called"}
        /\ Returns("suggest_improvements", <<results>>,
                   suggest_improvements(results, self.scoring_thresholds))
        /\ pc' = "called"
        /\ UNCHANGED <<config, coreVars, fileVars, initVars, gemVars, lcVars>>

NextProcessor ==
    \/ Construct
    \/ CallCleanText \/ CallExtractKeywords \/ CallMatchKeywords
    \/ CallCalculateMatchScore \/ CallAnalyzeResumeSections
    \/ CallSuggestImprovements
SpecProcessor == InitProcessor /\ [][NextProcessor]_vars

\* ---- FileHandler.extract_text_from_file(uploaded_file)
InitFile ==
    /\ pc = "extract_text_from_file"
    /\ uploaded_file \in UploadedFiles
    /\ extracted_text = None
    /\ st_messages = <<>>
    /\ CoreIdle /\ ProcIdle /\ GeminiInitIdle /\ GeminiIdle /\ LangChainIdle

\* is_valid, error_message = self.validate_file(uploaded_file); if not
\* is_valid: st.error(error_message); return ""
ValidateFile ==
    /\ pc = "extract_text_from_file"
    /\ LET validation == validate_file(uploaded_file)
       IN IF validation.is_valid
          THEN /\ pc' = "try"
               /\ UNCHANGED <<extracted_text, st_messages>>
          ELSE /\ pc' = "returned"
               /\ extracted_text' = <<>>
               /\ st_messages' = <<Message("error", validation.error_message)>>
    /\ UNCHANGED <<uploaded_file, coreVars, procVars, initVars, gemVars, lcVars>>

\* the try block: the extractor of the extension returns
ExtractByExtension ==
    /\ pc = "try"
    /\ LET outcome == extract_by_extension(uploaded_file)
       IN /\ extracted_text' = outcome.returned
          /\ st_messages' = outcome.messages
    /\ pc' = "returned"
    /\ UNCHANGED <<uploaded_file, coreVars, procVars, initVars, gemVars, lcVars>>

NextFile == ValidateFile \/ ExtractByExtension
SpecFile == InitFile /\ [][NextFile]_vars

\* ---- LangChainService.analyze_job_description and analyze_resume on what
\* ---- the chain does
InitLangChain ==
    /\ \/ /\ pc = "analyze_job_description"
          /\ chain_output \in ChainOutputs(JobDocuments)
       \/ /\ pc = "analyze_resume"
          /\ chain_output \in ChainOutputs(ResumeDocuments)
    /\ analysis = None
    /\ CoreIdle /\ ProcIdle /\ FileIdle /\ GeminiInitIdle /\ GeminiIdle

AnalyzeJobDescription ==
    /\ pc = "analyze_job_description"
    /\ analysis' = analyze_job_description(chain_output, JobDocuments)
    /\ pc' = "job_analyzed"
    /\ UNCHANGED <<chain_output, coreVars, procVars, fileVars, initVars, gemVars>>

AnalyzeResume ==
    /\ pc = "analyze_resume"
    /\ analysis' = analyze_resume(chain_output, ResumeDocuments)
    /\ pc' = "resume_analyzed"
    /\ UNCHANGED <<chain_output, coreVars, procVars, fileVars, initVars, gemVars>>

NextLangChain == AnalyzeJobDescription \/ AnalyzeResume
SpecLangChain == InitLangChain /\ [][NextLangChain]_vars

-----------------------------------------------------------------------------
(* The claims.                                                             *)

HasResult == pc \in {"matched", "calculate_match_score", "scored"}
Target == keyword_set(job_keywords)
Matched == Range(result.matched)
Missing == Range(result.missing)
Exact == Range(result.exact_matches)
Partial == Range(result.partial_matches)

\* C1: the result of match_keywords is a partition of the target (the set of
\* lower-cased, trimmed job keywords): matched is the union of the exact and
\* the partial matches, which are disjoint, and matched and missing are
\* disjoint and together make up the target.
C1_Partition ==
    HasResult =>
        /\ Matched = Exact \cup Partial
        /\ Exact \cap Partial = {}
        /\ Matched \cap Missing = {}
        /\ Matched \cup Missing = Target

C1_Witness ==
    HasResult /\ Exact # {} /\ Partial # {} /\ Missing # {}

\* a list of tokens: every keyword lower-case and trimmed already
IsKeywordSet(kws) == \A i \in DOMAIN kws : kws[i] = strip(lower(kws[i]))

\* C2: matching a keyword list against itself matches all of it: matched is
\* the keyword set of the list (the list itself when it holds tokens) and
\* nothing is missing.
C2_SelfMatchTotal ==
    (HasResult /\ resume_keywords = job_keywords) =>
        /\ Matched = Target
        /\ IsKeywordSet(job_keywords) => Matched = Range(job_keywords)
        /\ result.missing = <<>>

C2_Witness ==
    /\ HasResult /\ resume_keywords = job_keywords
    /\ Len(job_keywords) = 2 /\ job_keywords[1] # job_keywords[2]
    /\ ~IsKeywordSet(job_keywords)

\* C3: _are_synonyms gives the same answer for (a, b) and for (b, a).
C3_Symmetric ==
    pc = "synonyms_done" => synonyms[1] = synonyms[2]

\* a pair only the containment rule relates, the shorter word first
C3_Witness ==
    /\ pc = "synonyms_done" /\ synonyms[1]
    /\ Len(word1) < Len(word2)
    /\ ~\E k \in DOMAIN skill_synonyms : InList(word1, skill_synonyms[k].synonyms)

\* the classes of the static table
SynonymClasses == {Range(skill_synonyms[k].synonyms) : k \in DOMAIN skill_synonyms}
InOneClass(a, b) == \E class \in SynonymClasses : a \in class /\ b \in class
Contains(a, b) ==
    \E i \in 1..Len(a) : \E j \in i..Len(a) : SubSeq(a, i, j) = b

\* C4: _are_synonyms(a, b) is true exactly when a = b, or both are in one
\* class of the table, or both are longer than 3 and one contains the other;
\* so (python, py) is true, (python, java) false, and (management,
\* management systems) true by containment alone.
C4_Decision ==
    pc \in {"are_synonyms_swapped", "synonyms_done"} =>
        /\ synonyms[1] = \/ word1 = word2
                         \/ InOneClass(word1, word2)
                         \/ /\ Len(word1) > 3 /\ Len(word2) > 3
                            /\ Contains(word1, word2) \/ Contains(word2, word1)
        /\ (word1 = S_python /\ word2 = S_py) => synonyms[1]
        /\ (word1 = S_python /\ word2 = S_java) => ~synonyms[1]
        /\ (word1 = S_management /\ word2 = S_management_systems) =>
               synonyms[1] /\ ~InOneClass(word1, word2)

C4_Witness ==
    /\ pc = "are_synonyms_swapped"
    /\ word1 = S_management /\ word2 = S_management_systems
    /\ synonyms[1]

Max(a, b) == IF a >= b THEN a ELSE b

\* C5: calculate_match_score returns 0 for an empty target and otherwise
\* floor(|matched| / |target| * 100) clamped to [0,100], an integer in 0..100.
C5_FloorOfRatio ==
    pc = "scored" =>
        /\ match_score \in 0..100
        /\ match_score =
               IF total_job_keywords = <<>> THEN 0
               ELSE Min(100, Max(0, (Len(matched_keywords) * 100) \div Len(total_job_keywords)))

\* C6: the candidate {python, communication} against the target {python,
\* communication, leadership, problem solving} has matched = {python,
\* communication}, missing = {leadership, problem solving} and score 50.
C6_Example ==
    (resume_keywords = ExampleResume /\ job_keywords = ExampleJob) =>
        /\ HasResult => /\ Matched = {S_python, S_communication}
                        /\ Missing = {S_leadership, S_problem_solving}
        /\ pc = "scored" => match_score = 50

C6_Witness ==
    resume_keywords = ExampleResume /\ job_keywords = ExampleJob /\ pc = "scored"

\* the tier of a score under the thresholds
Tier(score, thresholds) ==
    IF score >= thresholds.excellent_threshold THEN "excellent"
    ELSE IF score >= thresholds.good_threshold THEN "good"
    ELSE IF score >= thresholds.fair_threshold THEN "fair"
    ELSE "poor"

\* the tier the branch suggest_improvements took stands for
BranchTier ==
    IF InList(RestructureSuggestion, suggestions) THEN "poor"
    ELSE IF InList(AddKeywordsSuggestion, suggestions) THEN "fair"
    ELSE "good"

\* C7: every score carries the tier its thresholds give it (excellent from
\* 85, good from 70, fair from 50, poor below), one tier per score, and the
\* branching on the score follows the configured thresholds.
C7_TierOfScore ==
    pc = "suggested" =>
        BranchTier = Tier(get(analysis_results, "match_score", 0), scoring_thresholds)

\* C8: with an empty candidate list nothing matches, exactly or by synonym,
\* the whole target is missing, and the score is 0.
C8_EmptyCandidate ==
    (HasResult /\ resume_keywords = <<>>) =>
        /\ result.exact_matches = <<>>
        /\ result.partial_matches = <<>>
        /\ Missing = Target
        /\ pc = "scored" => match_score = 0

C8_Witness ==
    resume_keywords = <<>> /\ Len(job_keywords) = 2 /\ pc = "scored"

\* C9: clean_text applied to its own output changes nothing.
C9_Idempotent ==
    pc = "recleaned" => recleaned = cleaned

\* C10: the output of clean_text neither starts nor ends with whitespace, and
\* its whitespace is single spaces, never two in a row.
C10_WhitespaceNormalised ==
    pc \in {"cleaned", "recleaned"} =>
        /\ cleaned # <<>> =>
               ~IsWhitespace(cleaned[1]) /\ ~IsWhitespace(cleaned[Len(cleaned)])
        /\ \A i \in DOMAIN cleaned : IsWhitespace(cleaned[i]) => cleaned[i] = " "
        /\ \A i \in 1..(Len(cleaned) - 1) :
               ~(IsWhitespace(cleaned[i]) /\ IsWhitespace(cleaned[i + 1]))


\* alphanumeric: a letter or a digit
IsAlphanumeric(c) == c \in Range(Lowercase) \cup Range(Uppercase) \cup Digits

C11_Kept(c) == IsAlphanumeric(c) \/ IsKeptPunctuation(c)

\* the alphanumeric and allow-listed punctuation characters of s, in order
RECURSIVE KeptCharacters(_)
KeptCharacters(s) ==
    IF s = <<>> THEN <<>>
    ELSE IF C11_Kept(Head(s)) THEN <<Head(s)>> \o KeptCharacters(Tail(s))
    ELSE KeptCharacters(Tail(s))

\* the characters of s other than spaces, in order
RECURSIVE NonSpaceCharacters(_)
NonSpaceCharacters(s) ==
    IF s = <<>> THEN <<>>
    ELSE IF Head(s) # " " THEN <<Head(s)>> \o NonSpaceCharacters(Tail(s))
    ELSE NonSpaceCharacters(Tail(s))

\* C11: clean_text turns every character that is not alphanumeric,
\* whitespace or one of - . , ; : ! ? into one space, and keeps the
\* alphanumeric characters and that punctuation as they are (case included)
\* and in their order.
C11_SpecialCharacters ==
    (pc \in {"cleaned", "recleaned"} /\ text # <<>>) =>
        LET trimmed == sub_whitespace_runs(strip(text))
        IN /\ cleaned = [i \in DOMAIN trimmed |->
                            IF C11_Kept(trimmed[i]) \/ IsWhitespace(trimmed[i])
                            THEN trimmed[i] ELSE " "]
           /\ NonSpaceCharacters(cleaned) = KeptCharacters(text)

S_javascript == <<"j","a","v","a","s","c","r","i","p","t">>

\* C20 as stated: _are_synonyms("art", "artistic") is true, "art" being
\* contained in "artistic".
C20_ArtArtistic ==
    (pc \in {"are_synonyms_swapped", "synonyms_done"}
        /\ word1 = S_art /\ word2 = S_artistic) => synonyms[1]

\* C20, amended: the containment rule needs both words longer than 3, so
\* ("art", "artistic") is false; it does relate unrelated words longer than
\* 3, such as ("java", "javascript").
C20_ContainmentNeedsLength ==
    pc \in {"are_synonyms_swapped", "synonyms_done"} =>
        /\ (word1 = S_art /\ word2 = S_artistic) =>
               ~synonyms[1] /\ Contains(word2, word1) /\ Len(word1) = 3
        /\ (word1 = S_java /\ word2 = S_javascript) =>
               synonyms[1] /\ ~InOneClass(word1, word2)

C20_Witness ==
    pc = "are_synonyms_swapped" /\ word1 = S_art /\ word2 = S_artistic

\* ---- extract_keywords
Normalized == IF text = NoneValue THEN <<>> ELSE clean_text(lower(text))

\* the word tokens of s: the runs of word characters that no word character
\* precedes or follows
WordTokens(s) ==
    LET starts == {i \in DOMAIN s :
                      IsWordChar(s[i]) /\ (i = 1 \/ ~IsWordChar(s[i - 1]))}
        ends == {j \in DOMAIN s :
                    IsWordChar(s[j]) /\ (j = Len(s) \/ ~IsWordChar(s[j + 1]))}
        end(i) == CHOOSE j \in ends : j >= i /\ \A k \in ends : k >= i => j <= k
    IN {SubSeq(s, i, end(i)) : i \in starts}

IsSingleWord(kw) == \A i \in DOMAIN kw : ~IsWhitespace(kw[i])
Qualifies(w) == Len(w) >= min_length /\ w \notin stop_words

\* C12: empty input is no error.  clean_text of "" and of None is "",
\* extract_keywords of "" (and None) is the empty list, and match_keywords
\* with an empty candidate list or an empty target list returns its four
\* fields, those that cannot hold anything being empty; no call raises.
C12_EmptyInputs ==
    /\ (pc = "cleaned" /\ text \in {NoneValue, <<>>}) => cleaned = <<>>
    /\ (pc = "extracted" /\ text \in {NoneValue, <<>>}) => all_keywords = <<>>
    /\ (pc = "matched" /\ resume_keywords = <<>>) =>
           /\ result.matched = <<>> /\ result.exact_matches = <<>>
           /\ result.partial_matches = <<>>
           /\ Missing = Target /\ Len(result.missing) = Cardinality(Target)
    /\ (pc = "matched" /\ job_keywords = <<>>) =>
           /\ result.matched = <<>> /\ result.exact_matches = <<>>
           /\ result.partial_matches = <<>> /\ result.missing = <<>>

C12_Witness == pc = "cleaned" /\ text = NoneValue /\ cleaned = <<>>

\* C13: no keyword of a single word is shorter than min_length or a stop
\* word, and every word token of the lower-cased, normalized text that is
\* at least min_length long and no stop word is among the keywords.
C13_TokenFilter ==
    pc = "extracted" =>
        /\ \A kw \in Range(all_keywords) : IsSingleWord(kw) => Qualifies(kw)
        /\ \A w \in WordTokens(Normalized) :
               Qualifies(w) => w \in Range(all_keywords)

C13_Witness ==
    /\ pc = "extracted"
    /\ \E w \in WordTokens(Normalized) : w \in stop_words /\ Len(w) >= min_length
    /\ \E w \in WordTokens(Normalized) : w \notin Range(all_keywords)
    /\ \E w \in WordTokens(Normalized) :
           Len(w) = min_length /\ w \in Range(all_keywords)

Catalogue == UNION {Range(phrase_patterns[n]) : n \in DOMAIN phrase_patterns}

\* p occurs in s as words: no word character right before or right after it
OccursAsWords(p, s) ==
    \E i \in 1..(Len(s) - Len(p) + 1) :
        /\ SubSeq(s, i, i + Len(p) - 1) = p
        /\ (i = 1 \/ ~IsWordChar(s[i - 1]))
        /\ (i + Len(p) > Len(s) \/ ~IsWordChar(s[i + Len(p)]))

NoDuplicates(lst) == \A i, j \in DOMAIN lst : lst[i] = lst[j] => i = j

C14_Union ==
    /\ NoDuplicates(all_keywords)
    /\ Range(all_keywords) =
           {w \in WordTokens(Normalized) : Qualifies(w)}
               \cup {p \in Catalogue : OccursAsWords(p, Normalized)}

\* C14 as stated: a catalogue phrase that occurs in the text, in any letter
\* case, is returned in lower case whatever min_length is, and the keywords
\* are the single-word keywords and the phrases, each once.
C14_PhraseOccurs ==
    (pc = "extracted" /\ text # NoneValue) =>
        /\ \A p \in Catalogue :
               IsSubstring(p, lower(text)) => p \in Range(all_keywords)
        /\ C14_Union

\* C14, amended: the same for a phrase that occurs as words, with no letter,
\* digit or underscore right before or right after it.
C14_PhraseOccursAsWords ==
    (pc = "extracted" /\ text # NoneValue) =>
        /\ \A p \in Catalogue :
               OccursAsWords(p, lower(text)) => p \in Range(all_keywords)
        /\ C14_Union

S_machine_learning == <<"m","a","c","h","i","n","e"," ","l","e","a","r","n","i","n","g">>

C14_Witness ==
    /\ pc = "extracted" /\ text # NoneValue /\ min_length = 20
    /\ IsSubstring(<<"M","a","c","h","i","n","e"," ","L","e","a","r","n","i","n","g">>, text)
    /\ S_machine_learning \in Range(all_keywords)
    /\ \E w \in WordTokens(Normalized) : w \notin Range(all_keywords)

\* ---- the token invariant
IsBlank(kw) == \A i \in DOMAIN kw : IsWhitespace(kw[i])

\* C15: no keyword extract_keywords returns and no keyword in a field of
\* the result of match_keywords is empty or made of whitespace only.
C15_NoBlankToken ==
    /\ pc = "extracted" => \A kw \in Range(all_keywords) : ~IsBlank(kw)
    /\ HasResult =>
           \A kw \in Matched \cup Missing \cup Exact \cup Partial : ~IsBlank(kw)

\* ---- determinism of matching and scoring
Reverse(lst) == [i \in DOMAIN lst |-> lst[Len(lst) + 1 - i]]

\* the result for the same keywords passed in reverse, both loops taking
\* their set in one fixed order
ReferenceResult ==
    match_keywords(Reverse(resume_keywords), Reverse(job_keywords),
                   list(keyword_set(job_keywords)),
                   list(keyword_set(resume_keywords)))

\* C19: the partition and the score depend on the keyword sets only, not on
\* the order in which the lists are passed or the loops enumerate the sets,
\* nor on which of several synonymous candidates the inner loop meets first.
C19_OrderIndependent ==
    pc = "scored" =>
        LET reference == ReferenceResult
        IN /\ Matched = Range(reference.matched)
           /\ Missing = Range(reference.missing)
           /\ Exact = Range(reference.exact_matches)
           /\ Partial = Range(reference.partial_matches)
           /\ match_score = calculate_match_score(reference.matched,
                                                  Reverse(job_keywords))

C19_Witness ==
    /\ pc = "scored"
    /\ \E job_kw \in Partial :
           Cardinality({resume_kw \in keyword_set(resume_keywords) :
                            are_synonyms(job_kw, resume_kw)}) >= 2
    /\ Cardinality(keyword_set(resume_keywords)) >= 3
    /\ Missing # {}

\* ---- analyze_resume_sections
\* the line the loop takes next, trimmed
NextLine == strip(lines[line_index + 1])

\* the labels of the header patterns that match the line without regard to case
MatchingLabels(line) ==
    {section_patterns[n].section : n \in
        {k \in DOMAIN section_patterns : search(section_patterns[k], lower(line))}}

\* C16: a non-empty trimmed line of at most 3 words that matches a header
\* pattern makes that pattern's label the current section and is appended
\* to no section; any other non-empty trimmed line is appended to the
\* current section, which stays.
C16_HeaderOrContent ==
    [][(pc = "for_line" /\ line_index < Len(lines) /\ NextLine # <<>>) =>
          IF Len(split(NextLine)) <= 3 /\ MatchingLabels(NextLine) # {}
          THEN /\ current_section' \in MatchingLabels(NextLine)
               /\ section_content' = section_content
          ELSE /\ current_section' = current_section
               /\ section_content' =
                      [section_content EXCEPT ![current_section] = Append(@, NextLine)]
      ]_vars

C16_Witness ==
    /\ pc = "for_line" /\ line_index = 3
    /\ strip(lines[1]) = L_Did_stuff
    /\ strip(lines[2]) = L_Skills_and_Experience
    /\ strip(lines[3]) = L_My_work
    /\ current_section = "experience"
    /\ section_content["other"] = <<L_Did_stuff>>
    /\ section_content["experience"] = <<L_My_work>>

IsPrefix(a, b) == Len(a) <= Len(b) /\ SubSeq(b, 1, Len(a)) = a

\* C17: the loop starts in section 'other', and no step of it takes a line
\* away from a section: a content line goes to the end of what its section
\* has collected, also when the header of that section has come up again.
C17_NeverReset ==
    [][/\ pc = "analyze_resume_sections" => current_section' = "other"
       /\ pc = "for_line" =>
              \A section \in DOMAIN section_content :
                  /\ IsPrefix(section_content[section], section_content'[section])
                  /\ section_content'[section] # section_content[section] =>
                         /\ section = current_section'
                         /\ section_content'[section] =
                                Append(section_content[section], NextLine)
      ]_vars

C17_Witness ==
    /\ pc = "returned" /\ resume_text = RepeatedHeader
    /\ section_content["other"] = <<L_Did_stuff>>
    /\ section_content["skills"] = <<L_Python_SQL, L_Did_stuff>>
    /\ section_content["experience"] = <<L_My_work>>

\* C18: the four lines SKILLS / Python, SQL / EXPERIENCE / Did stuff give
\* skills = "Python, SQL" and experience = "Did stuff", and neither header
\* line is in the content of any section.
C18_Example ==
    (pc = "returned" /\ resume_text = ExampleSections) =>
        /\ sections["skills"] = L_Python_SQL
        /\ sections["experience"] = L_Did_stuff
        /\ \A section \in DOMAIN sections :
               /\ ~IsSubstring(L_SKILLS, sections[section])
               /\ ~IsSubstring(L_EXPERIENCE, sections[section])
               /\ section \notin {"skills", "experience"} => sections[section] = <<>>

C18_Witness ==
    /\ pc = "returned" /\ resume_text = ExampleSections
    /\ lines = <<L_SKILLS, L_Python_SQL, L_EXPERIENCE, L_Did_stuff>>

\* ---- the segmenter's output against its input
\* the trimmed lines of the resume
TrimmedLines == [i \in DOMAIN lines |-> strip(lines[i])]

\* what each line is, from line i on: "" for a line that is empty once
\* trimmed, the section it opens for a header, None for a content line
RECURSIVE LineClasses(_)
LineClasses(i) ==
    IF i > Len(lines) THEN <<>>
    ELSE <<IF TrimmedLines[i] = <<>> THEN "" ELSE found_section(TrimmedLines[i])>>
             \o LineClasses(i + 1)

\* the section that is current when line i is read: the one of the last
\* header line before it, 'other' if there is none
SectionAt(classes, i) ==
    LET headers == {k \in 1..(i - 1) : classes[k] \notin {"", None}}
    IN IF headers = {} THEN "other"
       ELSE classes[CHOOSE k \in headers : \A h \in headers : h <= k]

\* the positions of the content lines: not empty once trimmed, not a header
ContentPositions(classes) == {i \in DOMAIN classes : classes[i] = None}

\* the elements of lst at the positions in P, in their order
RECURSIVE Pick(_, _, _)
Pick(lst, P, i) ==
    IF i > Len(lst) THEN <<>>
    ELSE (IF i \in P THEN <<lst[i]>> ELSE <<>>) \o Pick(lst, P, i + 1)

\* the lines of a section of the output
OutputLines(section) ==
    IF sections[section] = <<>> THEN <<>> ELSE split_lines(sections[section])

RECURSIVE SumOver(_, _)
SumOver(S, f) ==
    IF S = {} THEN 0
    ELSE LET x == CHOOSE y \in S : TRUE IN f[x] + SumOver(S \ {x}, f)

AllLabels ==
    {"contact", "summary", "experience", "education", "skills",
     "certifications", "projects", "achievements", "other"}

\* C29: every content line (not empty once trimmed, not a header) is in the
\* output once for each time it is in the input, in the section that was
\* current when it was read and in input order; the sections hold as many
\* lines as the input has content lines; the output has the nine labels,
\* a section without lines being "".
C29_Conservation ==
    pc = "returned" =>
        LET classes == LineClasses(1)
            content == ContentPositions(classes)
        IN /\ DOMAIN sections = AllLabels
           /\ \A section \in AllLabels :
                  OutputLines(section) =
                      Pick(TrimmedLines,
                           {i \in content : SectionAt(classes, i) = section}, 1)
           /\ SumOver(AllLabels,
                      [section \in AllLabels |-> Len(OutputLines(section))])
                  = Cardinality(content)

C29_Witness ==
    /\ pc = "returned"
    /\ Len(lines) = 3
    /\ TrimmedLines[1] = L_Did_stuff /\ TrimmedLines[3] = L_Did_stuff
    /\ TrimmedLines[2] = L_SKILLS
    /\ sections["other"] = L_Did_stuff /\ sections["skills"] = L_Did_stuff

\* ---- a full score and an empty missing list
\* C30: for a non-empty job keyword list, duplicates and variants in case or
\* padding included, the score of the matched list against the job list is
\* 100 exactly when the missing list is empty.
C30_FullScoreIffNothingMissing ==
    (pc = "scored" /\ job_keywords # <<>>) =>
        (match_score = 100 <=> result.missing = <<>>)


\* ---- GeminiService.generate_response
IsContentCall(e) == e.event = "generate_content"
IsBackoff(e) == e.event = "sleep" /\ e.what = "backoff"
ContentCalls == SelectSeq(events, IsContentCall)
GenerateDone == pc \in {"returned", "raised"}

\* C24: generate_response calls the model at most max_retries times; the
\* first call whose response has text is the last call, and the text it
\* returns is that text stripped; it returns a text in no other case.
C24_FirstTextReturned ==
    pc \in {"generate_response", "returned", "raised"} =>
        /\ Len(ContentCalls) <= max_retries
        /\ \A i \in DOMAIN events :
               (IsContentCall(events[i]) /\ events[i].text # <<>>) =>
                   /\ i = Len(events)
                   /\ pc = "returned"
                   /\ generated = strip(events[i].text)
        /\ (pc = "returned" /\ generated # NoneValue) =>
               /\ events # <<>>
               /\ IsContentCall(events[Len(events)])
               /\ events[Len(events)].text # <<>>

C24_Witness ==
    /\ pc = "returned" /\ max_retries = 3
    /\ Len(ContentCalls) = 3
    /\ ContentCalls[1].what = "raises"
    /\ ContentCalls[2].what = "empty"
    /\ ContentCalls[3].text = <<" ","o","k"," ">>
    /\ generated = <<"o","k">>

\* C25: when no attempt gives a response with text, generate_response
\* returns None after max_retries attempts.
C25_NoneWhenNothingReturned ==
    (GenerateDone /\ \A i \in DOMAIN ContentCalls : ContentCalls[i].text = <<>>) =>
        /\ pc = "returned"
        /\ generated = NoneValue
        /\ Len(ContentCalls) = max_retries

\* C26: a raising attempt k that is not the last is followed at once by a
\* wait of (2^k)*2 seconds, before attempt k+1; nothing follows a raising
\* last attempt; a backoff wait follows raising attempts only; the backoff
\* waits grow strictly.
C26_Backoff ==
    pc \in {"generate_response", "returned", "raised"} =>
        /\ \A i \in DOMAIN events :
               (IsContentCall(events[i]) /\ events[i].what = "raises") =>
                   IF events[i].attempt < max_retries - 1
                   THEN /\ i < Len(events)
                        /\ IsBackoff(events[i + 1])
                        /\ events[i + 1].seconds = (2 ^ events[i].attempt) * 2
                        /\ \A j \in (i + 2)..Len(events) :
                               IsContentCall(events[j]) =>
                                   events[j].attempt > events[i].attempt
                   ELSE i = Len(events)
        /\ \A i \in DOMAIN events :
               IsBackoff(events[i]) =>
                   /\ i > 1
                   /\ IsContentCall(events[i - 1])
                   /\ events[i - 1].what = "raises"
                   /\ events[i - 1].attempt < max_retries - 1
        /\ \A i, j \in DOMAIN events :
               (i < j /\ IsBackoff(events[i]) /\ IsBackoff(events[j])) =>
                   events[i].seconds < events[j].seconds

C26_Witness ==
    /\ pc = "raised" /\ max_retries = 3
    /\ Len(SelectSeq(events, IsBackoff)) = 2
    /\ SelectSeq(events, IsBackoff)[1].seconds = 2
    /\ SelectSeq(events, IsBackoff)[2].seconds = 4


\* ---- GeminiService.__init__
\* the names whose test query succeeded
PassedTest == {tried[i].model_name : i \in {k \in DOMAIN tried : tried[k].what = "test_ok"}}

\* C27: the model names are tried in list order up to the first whose test
\* query succeeds; if none succeeds the constructor raises ValueError; the
\* service never ends up holding a model that failed its test.
C27_ModelPassedItsTest ==
    /\ pc \in {"for_model_name", "after_loop", "constructed", "raised_ValueError"} =>
           /\ \A i \in DOMAIN tried : tried[i].model_name = model_names_to_try[i]
           /\ \A i \in DOMAIN tried : tried[i].what = "test_ok" => i = Len(tried)
    /\ (pc \in {"constructed", "raised_ValueError"} /\ PassedTest = {}) =>
           pc = "raised_ValueError"
    /\ pc = "constructed" => model \in PassedTest
    /\ pc = "raised_ValueError" => model = None


\* ---- ResumeProcessor.__init__ and the frame of the operations
\* the thresholds fall from excellent to fair and the case flag is there
ValidConfiguration(cfg) ==
    /\ cfg.scoring.excellent_threshold >= cfg.scoring.good_threshold
    /\ cfg.scoring.good_threshold >= cfg.scoring.fair_threshold
    /\ "case_sensitive" \in DOMAIN cfg.keyword_matching

\* C21: constructing the analysis core under a configuration whose tier
\* thresholds are not monotonic, or that has no keyword_matching.case_sensitive,
\* raises InvalidConfiguration: no processor is constructed under it.
C21_InvalidConfigurationRaised ==
    (pc \in {"constructed", "called", "raised_InvalidConfiguration"}
        /\ ~ValidConfiguration(config))
    => pc = "raised_InvalidConfiguration"

SuccessfulEmpty(file) ==
    /\ validate_file(file).is_valid
    /\ ~file.parsed.raises
    /\ extract_by_extension(file).returned = <<>>
    /\ file_extension(file) = <<"t","x","t">> =>
           \E e \in DOMAIN file.parsed.decode : ~file.parsed.decode[e].raises

\* C23: the empty string is returned only when the file was of a supported
\* format and was parsed successfully but holds no text; an unsupported
\* extension and a failed parse are told apart from it by what is returned.
C23_EmptyOnlyWhenNoText ==
    (pc = "returned" /\ uploaded_file # NoneFile /\ extracted_text = <<>>)
    => SuccessfulEmpty(uploaded_file)


\* ---- LangChainService.analyze_job_description and analyze_resume
\* the keys the model's answer holds, with their values: those of the JSON
\* object parse finds in a text, none otherwise
ModelValues(documents) ==
    IF chain_output.kind # "str" THEN EmptyDict
    ELSE LET parsed_result == parse(chain_output.text, documents)
         IN IF parsed_result.kind = "dict" /\ "error" \notin DOMAIN parsed_result.value
            THEN parsed_result.value ELSE EmptyDict

KeepsModelValues(documents, default_structure) ==
    /\ DOMAIN default_structure \subseteq DOMAIN analysis
    /\ \A key \in DOMAIN ModelValues(documents) \cap DOMAIN default_structure :
           analysis[key] = ModelValues(documents)[key]

\* C28: whatever the chain does, both analyses return a record with all nine
\* keys, in which every key the model's answer holds has the model's value
\* and only the keys it lacks are filled in.
C28_NineKeysModelValuesKept ==
    /\ pc = "job_analyzed" => KeepsModelValues(JobDocuments, job_default_structure)
    /\ pc = "resume_analyzed" => KeepsModelValues(ResumeDocuments, resume_default_structure)

====
